---------------------------- MODULE Spec2Model ----------------------------
(***************************************************************************)
(* A model of phonopy-workflow/workflow.py: the interactive Phonopy + VASP *)
(* workflow manager.  The state is the working directory (regular files,   *)
(* work directories, the persisted configuration record, band.conf) and    *)
(* the running process (its position, its in-memory configuration, the     *)
(* steps it has executed so far).  One action models one function of the   *)
(* program; the external tools (phonopy, phonopy-bandplot, ASE, the VASP   *)
(* runs between two invocations) are nondeterministic choices.             *)
(***************************************************************************)
EXTENDS Integers, Sequences, FiniteSets, TLC

(***************************************************************************)
(* Bounds of the model.                                                    *)
(***************************************************************************)
\* number of invocations of the program in one behaviour
MaxRuns == 2
\* the displacement tool numbers its files 001 .. NumDisp
NumDisp == 2
\* longest OUTCAR (in lines) of the convergence-check specification
MaxLogLen == 3
\* largest supercell factor of the configuration-store specification
MaxDim == 2

(***************************************************************************)
(* Strings.  A file name is a sequence of characters, so that split("-"),  *)
(* str.isdigit, the glob patterns, the regular expression and sorted() are *)
(* computed on the name as the program computes them.                      *)
(***************************************************************************)
Digits == <<"0", "1", "2", "3", "4", "5", "6", "7", "8", "9">>

DigitSet == {Digits[i] : i \in 1..Len(Digits)}

\* the characters of the names used here, in code-point order
CharOrder ==
    <<"-", ".", "0", "1", "2", "3", "4", "5", "6", "7", "8", "9",
      "A", "C", "E", "F", "O", "P", "R", "S", "T", "[", "]", "_",
      "a", "b", "c", "d", "e", "h", "i", "l", "n", "o", "p", "s", "t", "u", "v", "x">>

CharCode(c) == CHOOSE i \in 1..Len(CharOrder) : CharOrder[i] = c

\* Python's str < str (and so Path < Path inside one directory)
RECURSIVE StrLess(_, _)
StrLess(a, b) ==
    IF b = <<>> THEN FALSE
    ELSE IF a = <<>> THEN TRUE
    ELSE IF Head(a) = Head(b) THEN StrLess(Tail(a), Tail(b))
    ELSE CharCode(Head(a)) < CharCode(Head(b))

\* sorted(S) for a set of names
RECURSIVE Sorted(_)
Sorted(S) ==
    IF S = {} THEN <<>>
    ELSE LET m == CHOOSE x \in S : \A y \in S \ {x} : StrLess(x, y)
         IN  <<m>> \o Sorted(S \ {m})

\* str.startswith
StartsWith(s, p) == Len(s) >= Len(p) /\ SubSeq(s, 1, Len(p)) = p

\* fnmatch: the index in pat, which starts with "[", of the "]" that closes
\* the character class, 0 when the class is not closed.  A "!" right after
\* the "[" and a "]" right after that are part of the class.
ClassEnd(pat) ==
    LET afterBang == IF Len(pat) >= 2 /\ pat[2] = "!" THEN 3 ELSE 2
        from == IF Len(pat) >= afterBang /\ pat[afterBang] = "]"
                THEN afterBang + 1 ELSE afterBang
        closing == {j \in from..Len(pat) : pat[j] = "]"}
    IN  IF closing = {} THEN 0
        ELSE CHOOSE j \in closing : \A k \in closing : j <= k

\* fnmatch: the character c is one of items, the inside of a class: a
\* listed character, or inside a range lo-hi
InItems(c, items) ==
    \/ \E i \in 1..Len(items) :
         /\ items[i] = c
         /\ ~ (c = "-" /\ 1 < i /\ i < Len(items))
    \/ \E i \in 2..(Len(items) - 1) :
         /\ items[i] = "-"
         /\ CharCode(items[i - 1]) <= CharCode(c)
         /\ CharCode(c) <= CharCode(items[i + 1])

\* fnmatch: c matches the class with the inside stuff
InClass(c, stuff) ==
    IF stuff # <<>> /\ Head(stuff) = "!" THEN ~ InItems(c, Tail(stuff))
    ELSE InItems(c, stuff)

\* the match of one name against one pattern of Path.glob (fnmatch, case
\* sensitive): "*" is any run of characters, "?" any one character, "[...]"
\* one character of the class, "[" without a closing "]" the character
\* itself
RECURSIVE fnmatch(_, _)
fnmatch(name, pat) ==
    IF pat = <<>> THEN name = <<>>
    ELSE IF Head(pat) = "*"
    THEN \E k \in 0..Len(name) : fnmatch(SubSeq(name, k + 1, Len(name)), Tail(pat))
    ELSE IF name = <<>> THEN FALSE
    ELSE IF Head(pat) = "?" THEN fnmatch(Tail(name), Tail(pat))
    ELSE IF Head(pat) = "[" /\ ClassEnd(pat) # 0
    THEN /\ InClass(Head(name), SubSeq(pat, 2, ClassEnd(pat) - 1))
         /\ fnmatch(Tail(name), SubSeq(pat, ClassEnd(pat) + 1, Len(pat)))
    ELSE Head(name) = Head(pat) /\ fnmatch(Tail(name), Tail(pat))

\* str.split("-")
RECURSIVE SplitDash(_, _)
SplitDash(s, cur) ==
    IF s = <<>> THEN <<cur>>
    ELSE IF Head(s) = "-" THEN <<cur>> \o SplitDash(Tail(s), <<>>)
    ELSE SplitDash(Tail(s), Append(cur, Head(s)))

split(s) == SplitDash(s, <<>>)

\* str.isdigit (ASCII digits)
isdigit(s) == Len(s) > 0 /\ \A i \in 1..Len(s) : s[i] \in DigitSet

\* f"{a}-{b}"
Dash(a, b) == a \o <<"-">> \o b

POSCAR == <<"P", "O", "S", "C", "A", "R">>
PPOSCAR == <<"P">> \o POSCAR
POSCAR_unitcell == Dash(POSCAR, <<"u", "n", "i", "t", "c", "e", "l", "l">>)
FORCE_SETS == <<"F", "O", "R", "C", "E", "_", "S", "E", "T", "S">>
band_yaml == <<"b", "a", "n", "d", ".", "y", "a", "m", "l">>
phononband_out == <<"p", "h", "o", "n", "o", "n", "b", "a", "n", "d", ".", "o", "u", "t">>

\* the operator's own structure file and the prefixes the operator may type
SourceFile == <<"S", "i", ".", "v", "a", "s", "p">>
PrefixChoices == {<<"d", "i", "s", "p">>, POSCAR}

\* what the operator may type at the supercell prompt, split at blanks
DimsInputs ==
    {<<<<"2">>, <<"2">>, <<"2">>>>, <<<<"1">>, <<"1">>, <<"3">>>>,
     <<<<"0">>, <<"1">>, <<"1">>>>, <<<<"2">>, <<"2">>>>, <<<<"2">>, <<"a">>, <<"2">>>>}

\* the numbered files of the displacement tool: POSCAR-001, POSCAR-002, ...
Suffix(i) == <<"0", "0", Digits[i + 1]>>
Suffixes == {Suffix(i) : i \in 1..NumDisp}

(***************************************************************************)
(* Files.  A file has a size (0, or 1 for "not empty"), its lines when it  *)
(* is a log (a line is the set of keywords that occur in it) and, when it  *)
(* is a structure or data file, what it holds, the numbered suffix of the   *)
(* displacement it holds, and the run that wrote it (run 0: written by the *)
(* operator or by a VASP run).                                             *)
(***************************************************************************)
DataFile(what, id, run) ==
    [size |-> 1, lines |-> <<>>, what |-> what, id |-> id, run |-> run]
EmptyFile == [size |-> 0, lines |-> <<>>, what |-> "", id |-> <<>>, run |-> 0]
LogFile(lines) ==
    [size |-> IF lines = <<>> THEN 0 ELSE 1, lines |-> lines, what |-> "log",
     id |-> <<>>, run |-> 0]

keyword_converged == "aborting loop because EDIFF is reached"
keyword_finished == "Voluntary"

\* a function with one more / one fewer argument
Put(f, k, v) == [x \in DOMAIN f \cup {k} |-> IF x = k THEN v ELSE f[x]]
Del(f, k) == [x \in DOMAIN f \ {k} |-> f[x]]

NoDirs == [x \in {} |-> [y \in {} |-> EmptyFile]]
NoChildren == [y \in {} |-> EmptyFile]

VARIABLES
    files,      \* regular files of the working directory: name -> file
    dirs,       \* directories of the working directory: name -> (child name -> file)
    record,     \* workflow_state.json: <<>> when absent, else <<the JSON object>>
    bandConf,   \* band.conf: <<>> when absent, else <<its contents>>
    runs,       \* invocations started so far
    pc,         \* position of the running process ("idle": no process)
    stage,      \* choose_stage()'s answer
    config,     \* the WorkflowConfig in memory: <<>> or <<config>>
    folders,    \* run_postprocessing's folders
    unconverged,\* run_postprocessing's unconverged_folders
    bandPath,   \* determine_band_path's result: <<>> or <<result>>
    trace,      \* the steps this run has executed, in order
    error,      \* the exception that ended the run: <<>> or <<exception>>
    exitCode,   \* the process's exit code: -1 while it runs
    start,      \* the working directory when this run started
    saved       \* the configuration last handed to save_config_snapshot

vars == <<files, dirs, record, bandConf, runs, pc, stage, config, folders,
          unconverged, bandPath, trace, error, exitCode, start, saved>>

disk == <<files, dirs, record, bandConf>>
proc == <<stage, config, folders, unconverged, bandPath, trace, error, exitCode>>


(***************************************************************************)
(* Configuration Store: save_config_snapshot / load_config_snapshot.       *)
(* workflow_state.json holds a JSON object; a JSON value is tagged with    *)
(* its JSON type, and the conversions of the loader (int(), bool(),        *)
(* list(), tuple()) are computed on the tagged value.                      *)
(***************************************************************************)
JInt(n) == [t |-> "int", v |-> <<n>>]
JStr(s) == [t |-> "str", v |-> <<s>>]
JBool(b) == [t |-> "bool", v |-> <<b>>]
JNull == [t |-> "null", v |-> <<>>]
JList(l) == [t |-> "list", v |-> l]
JObject(d) == [t |-> "object", v |-> d]
\* a text json.loads rejects (JSONDecodeError, a ValueError)
JInvalid == [t |-> "invalid", v |-> <<>>]

\* the dataclass defaults of WorkflowConfig
DefaultAtomName == "BO3"
DefaultBandPoints == 51
Gamma == "$\\Gamma$"
DefaultBandLabels == <<Gamma, "M", "K", Gamma>>
DefaultBandSequence == <<"G", "M", "K", "G">>

WorkflowConfig(st, dims, prefix, poscar_path, apply_symmetry, atom_name, band_points, band_labels, band_sequence) ==
    [stage |-> st, dims |-> dims, prefix |-> prefix, poscar_path |-> poscar_path,
     apply_symmetry |-> apply_symmetry, atom_name |-> atom_name,
     band_points |-> band_points, band_labels |-> band_labels,
     band_sequence |-> band_sequence]

\* json.dumps(data): the JSON object save_config_snapshot writes
SaveData(c) ==
    [dims |-> JList([i \in 1..Len(c.dims) |-> JInt(c.dims[i])]),
     prefix |-> JStr(c.prefix),
     atom_name |-> JStr(c.atom_name),
     band_points |-> JInt(c.band_points),
     band_labels |-> JStr(c.band_labels),
     band_sequence |-> JList([i \in 1..Len(c.band_sequence) |-> JStr(c.band_sequence[i])]),
     poscar_path |-> IF c.poscar_path = <<>> THEN JNull ELSE JStr(c.poscar_path[1]),
     apply_symmetry |-> JBool(c.apply_symmetry)]

\* int("...") of a string of decimal digits
RECURSIVE ParseDec(_, _)
ParseDec(s, acc) ==
    IF s = <<>> THEN acc
    ELSE ParseDec(Tail(s), 10 * acc + (CharCode(Head(s)) - CharCode("0")))

\* int("...") of a string: an optional sign, then decimal digits
IntOfStr(s) ==
    IF isdigit(s) THEN <<ParseDec(s, 0)>>
    ELSE IF Len(s) > 1 /\ Head(s) = "-" /\ isdigit(Tail(s)) THEN <<0 - ParseDec(Tail(s), 0)>>
    ELSE <<>>

\* int(value): <<n>>, or <<>> for a ValueError / TypeError
PyInt(j) ==
    CASE j.t = "int" -> <<j.v[1]>>
      [] j.t = "bool" -> <<IF j.v[1] THEN 1 ELSE 0>>
      [] j.t = "str" -> IntOfStr(j.v[1])
      [] OTHER -> <<>>

\* prompt_int_list on one answer: <<the values>>, or <<>> when the answer is
\* refused (wrong count, or a part int() rejects) and the prompt is repeated
prompt_int_list(parts, count) ==
    IF Len(parts) # count THEN <<>>
    ELSE IF \E i \in 1..Len(parts) : IntOfStr(parts[i]) = <<>> THEN <<>>
    ELSE <<[i \in 1..Len(parts) |-> IntOfStr(parts[i])[1]]>>

\* the supercell factors collect_configuration can come back with
DimsChoices ==
    {prompt_int_list(p, 3)[1] : p \in {q \in DimsInputs : prompt_int_list(q, 3) # <<>>}}

\* bool(value)
PyBool(j) ==
    CASE j.t = "bool" -> j.v[1]
      [] j.t = "int" -> j.v[1] # 0
      [] j.t = "null" -> FALSE
      [] OTHER -> j.v # <<>> /\ j.v # << <<>> >>

\* the value itself, as Python holds it (a JSON string is a str)
PyValue(j) ==
    CASE j.t \in {"int", "str", "bool"} -> j.v[1]
      [] j.t = "list" -> [i \in 1..Len(j.v) |-> j.v[i].v[1]]
      [] OTHER -> <<>>

\* data.get(key, default)
Get(data, key, default) == IF key \in DOMAIN data THEN data[key] ELSE default

\* iterating a value (tuple(... for value in x)): <<its items>>, or <<>> for
\* the TypeError of a value that is not iterable; a str yields its characters
PyIter(j) ==
    CASE j.t = "list" -> <<j.v>>
      [] j.t = "str" -> <<[i \in 1..Len(j.v[1]) |-> JStr(<<j.v[1][i]>>)]>>
      [] OTHER -> <<>>

\* list(value): <<the list>>, or <<>> for a TypeError
PyList(j) ==
    CASE j.t = "list" -> <<[i \in 1..Len(j.v) |-> j.v[i].v[1]]>>
      [] j.t = "str" -> <<j.v[1]>>
      [] OTHER -> <<>>

\* what load_config_snapshot answers: a configuration, or the type of the
\* exception that leaves it
Loaded(c) == [ok |-> TRUE, config |-> <<c>>, error |-> ""]
Corrupt == [ok |-> FALSE, config |-> <<>>, error |-> "RuntimeError"]
PathTypeError == [ok |-> FALSE, config |-> <<>>, error |-> "TypeError"]

\* load_config_snapshot on the parsed object: the try block, whose KeyError,
\* ValueError and TypeError become the RuntimeError of a corrupt record, then
\* Path(poscar_value), which is outside it
LoadMutantKeepDefaults(data, st) ==
    IF ~ {"dims", "prefix"} \subseteq DOMAIN data THEN Corrupt
    ELSE Loaded(WorkflowConfig(st, PyValue(data["dims"]), PyValue(data["prefix"]),
                               <<>>, TRUE, DefaultAtomName, DefaultBandPoints,
                               DefaultBandLabels, DefaultBandSequence))

LoadMutantSymmetryDefaultFalse(data, st) ==
    IF ~ {"dims", "prefix"} \subseteq DOMAIN data THEN Corrupt
    ELSE LET items == PyIter(data["dims"])
             ints == IF items = <<>> THEN <<>>
                     ELSE [i \in 1..Len(items[1]) |-> PyInt(items[1][i])]
             bp == PyInt(Get(data, "band_points", JInt(DefaultBandPoints)))
             bs == PyList(Get(data, "band_sequence",
                              JList([i \in 1..4 |-> JStr(DefaultBandSequence[i])])))
             pv == Get(data, "poscar_path", JNull)
         IN  IF \/ items = <<>>
                \/ \E i \in 1..Len(ints) : ints[i] = <<>>
                \/ bp = <<>>
                \/ bs = <<>>
             THEN Corrupt
             ELSE IF PyBool(pv) /\ pv.t # "str" THEN PathTypeError
             ELSE Loaded(WorkflowConfig(
                       st,
                       [i \in 1..Len(ints) |-> ints[i][1]],
                       PyValue(data["prefix"]),
                       IF PyBool(pv) THEN <<PyValue(pv)>> ELSE <<>>,
                       PyBool(Get(data, "apply_symmetry", JBool(FALSE))),
                       PyValue(Get(data, "atom_name", JStr(DefaultAtomName))),
                       bp[1],
                       PyValue(Get(data, "band_labels", JStr(DefaultBandLabels))),
                       bs[1]))

LoadData(data, st) ==
    IF ~ {"dims", "prefix"} \subseteq DOMAIN data THEN Corrupt
    ELSE LET items == PyIter(data["dims"])
             ints == IF items = <<>> THEN <<>>
                     ELSE [i \in 1..Len(items[1]) |-> PyInt(items[1][i])]
             bp == PyInt(Get(data, "band_points", JInt(DefaultBandPoints)))
             bs == PyList(Get(data, "band_sequence",
                              JList([i \in 1..4 |-> JStr(DefaultBandSequence[i])])))
             pv == Get(data, "poscar_path", JNull)
         IN  IF \/ items = <<>>
                \/ \E i \in 1..Len(ints) : ints[i] = <<>>
                \/ bp = <<>>
                \/ bs = <<>>
             THEN Corrupt
             ELSE IF PyBool(pv) /\ pv.t # "str" THEN PathTypeError
             ELSE Loaded(WorkflowConfig(
                       st,
                       [i \in 1..Len(ints) |-> ints[i][1]],
                       PyValue(data["prefix"]),
                       IF PyBool(pv) THEN <<PyValue(pv)>> ELSE <<>>,
                       PyBool(Get(data, "apply_symmetry", JBool(TRUE))),
                       PyValue(Get(data, "atom_name", JStr(DefaultAtomName))),
                       bp[1],
                       PyValue(Get(data, "band_labels", JStr(DefaultBandLabels))),
                       bs[1]))

\* json.loads, then the rest: a document that is not an object fails at
\* data["dims"] with a TypeError, a text that is not JSON with a ValueError
LoadDocument(doc, st) == IF doc.t # "object" THEN Corrupt ELSE LoadData(doc.v, st)

(***************************************************************************)
(* The process: main() and the functions it calls.                         *)
(***************************************************************************)
\* a step the process has executed: what, on which file or folder, and what
\* came of it (what the external tool wrote, what was logged)
EventNote(op, on, note) == [op |-> op, on |-> on, note |-> note]
Event(op, on) == EventNote(op, on, <<>>)

\* what run_command logs: the command, and the failure on a non-zero exit
Command(op, on, note, failed) ==
    <<EventNote(op, on, note)>>
    \o (IF failed THEN <<Event("command failed", <<>>)>> ELSE <<>>)
Exception(type, at, names) == [type |-> type, at |-> at, names |-> names]

Snapshot == [files |-> files, dirs |-> dirs, record |-> record, bandConf |-> bandConf]

\* main's "except Exception": log the failure, sys.exit(1)
RaiseMutantExitZero(e) ==
    /\ pc' = "done"
    /\ error' = <<e>>
    /\ exitCode' = 0

Raise(e) ==
    /\ pc' = "done"
    /\ error' = <<e>>
    /\ exitCode' = 1

\* main returns normally
Return ==
    /\ pc' = "done"
    /\ error' = <<>>
    /\ exitCode' = 0

\* run_command on a non-zero exit: the failure is logged, RuntimeError raised
CommandFailed ==
    /\ Raise(Exception("RuntimeError", "run_command", <<>>))

Continue(next) ==
    /\ pc' = next
    /\ UNCHANGED <<error, exitCode>>

Init ==
    /\ files = [n \in {SourceFile} |-> DataFile("structure", <<>>, 0)]
    /\ dirs = NoDirs
    /\ record = <<>>
    /\ bandConf = <<>>
    /\ runs = 0
    /\ pc = "idle"
    /\ stage = ""
    /\ config = <<>>
    /\ folders = <<>>
    /\ unconverged = <<>>
    /\ bandPath = <<>>
    /\ trace = <<>>
    /\ error = <<>>
    /\ exitCode = -1
    /\ start = [files |-> files, dirs |-> dirs, record |-> record, bandConf |-> bandConf]
    /\ saved = <<>>

\* main: setup_logging, choose_stage
ChooseStage ==
    /\ pc = "idle"
    /\ runs < MaxRuns
    /\ \E st \in {"pre", "post", "full"} : stage' = st
    /\ runs' = runs + 1
    /\ pc' = "collect_configuration"
    /\ trace' = <<Event("choose_stage", <<>>)>>
    /\ start' = Snapshot
    /\ UNCHANGED <<disk, config, folders, unconverged, bandPath, error, exitCode, saved>>

\* collect_configuration, stage "post": load_config_snapshot
LoadConfigSnapshotMutantDefaults ==
    /\ trace' = Append(trace, Event("load_config_snapshot", <<>>))
    /\ IF record = <<>>
       THEN /\ config' = <<WorkflowConfig(stage, <<2, 2, 2>>, <<"d", "i", "s", "p">>, <<>>,
                                          TRUE, DefaultAtomName, DefaultBandPoints,
                                          DefaultBandLabels, DefaultBandSequence)>>
            /\ Continue("run_postprocessing")
       ELSE LET r == LoadDocument(record[1], stage)
            IN  IF r.ok
                THEN config' = r.config /\ Continue("run_postprocessing")
                ELSE /\ Raise(Exception(r.error, "load_config_snapshot", <<>>))
                     /\ UNCHANGED config
    /\ UNCHANGED <<record, saved>>

LoadConfigSnapshotMutantConsume ==
    /\ trace' = Append(trace, Event("load_config_snapshot", <<>>))
    /\ IF record = <<>>
       THEN /\ Raise(Exception("FileNotFoundError", "load_config_snapshot", <<>>))
            /\ UNCHANGED config
       ELSE LET r == LoadDocument(record[1], stage)
            IN  IF r.ok
                THEN config' = r.config /\ Continue("run_postprocessing")
                ELSE /\ Raise(Exception(r.error, "load_config_snapshot", <<>>))
                     /\ UNCHANGED config
    /\ record' = <<>>
    /\ UNCHANGED saved

LoadConfigSnapshot ==
    /\ trace' = Append(trace, Event("load_config_snapshot", <<>>))
    /\ IF record = <<>>
       THEN /\ Raise(Exception("FileNotFoundError", "load_config_snapshot", <<>>))
            /\ UNCHANGED config
       ELSE LET r == LoadDocument(record[1], stage)
            IN  IF r.ok
                THEN config' = r.config /\ Continue("run_postprocessing")
                ELSE /\ Raise(Exception(r.error, "load_config_snapshot", <<>>))
                     /\ UNCHANGED config
    /\ UNCHANGED <<record, saved>>

\* save_config_snapshot(c)
save_config_snapshot_MutantDefaultDims(c) ==
    /\ record' = <<JObject(SaveData([c EXCEPT !.dims = <<2, 2, 2>>]))>>
    /\ saved' = <<c>>

save_config_snapshot(c) ==
    /\ record' = <<JObject(SaveData(c))>>
    /\ saved' = <<c>>

\* collect_configuration, stage "pre" or "full": the prompts, then save_config_snapshot
PromptAndSave ==
    \E src \in {SourceFile, POSCAR} \cap DOMAIN files, sym \in BOOLEAN,
       dims \in DimsChoices, prefix \in PrefixChoices :
        LET c == WorkflowConfig(stage, dims, prefix, <<src>>, sym, DefaultAtomName,
                                DefaultBandPoints, DefaultBandLabels, DefaultBandSequence)
        IN  /\ config' = <<c>>
            /\ save_config_snapshot(c)
            /\ trace' = trace \o <<Event("prompt_user", <<>>),
                                   Event("save_config_snapshot", <<>>)>>
            /\ Continue("copy_poscar_to_workdir")

CollectConfiguration ==
    /\ pc = "collect_configuration"
    /\ IF stage = "post" THEN LoadConfigSnapshot ELSE PromptAndSave
    /\ UNCHANGED <<files, dirs, bandConf, runs, stage, folders, unconverged, bandPath, start>>

\* run_preprocessing's guard, then copy_poscar_to_workdir
CopyPoscarToWorkdir ==
    /\ pc = "copy_poscar_to_workdir"
    /\ IF config[1].poscar_path = <<>>
       THEN /\ Raise(Exception("RuntimeError", "run_preprocessing", <<>>))
            /\ UNCHANGED <<files, trace>>
       ELSE LET source == config[1].poscar_path[1]
            IN  /\ files' = IF source = POSCAR THEN files
                            ELSE Put(files, POSCAR, files[source])
                /\ trace' = Append(trace, Event("copy_poscar_to_workdir", source))
                /\ Continue("ensure_poscar_unitcell")
    /\ UNCHANGED <<dirs, record, bandConf, runs, stage, config, folders, unconverged,
                   bandPath, start, saved>>

\* ensure_poscar_unitcell.  `phonopy --symmetry POSCAR` exits non-zero ("fail"),
\* writes PPOSCAR ("ok") or exits 0 without writing it ("silent").
EnsurePoscarUnitcellMutantKeepOld ==
    /\ pc = "ensure_poscar_unitcell"
    /\ IF config[1].apply_symmetry
       THEN /\ \E outcome \in {"fail", "ok", "silent"} :
                LET written == IF outcome = "ok"
                               THEN Put(files, PPOSCAR, DataFile("reduced", <<>>, runs))
                               ELSE files
                IN  /\ trace' = trace \o Command("phonopy --symmetry", POSCAR, <<outcome>>,
                                                  outcome = "fail")
                    /\ IF outcome = "fail"
                       THEN /\ CommandFailed
                            /\ UNCHANGED files
                       ELSE IF PPOSCAR \notin DOMAIN written
                       THEN /\ Raise(Exception("FileNotFoundError", "ensure_poscar_unitcell",
                                               <<PPOSCAR>>))
                            /\ files' = written
                       ELSE /\ files' = IF POSCAR_unitcell \in DOMAIN written
                                        THEN Del(written, PPOSCAR)
                                        ELSE Put(Del(written, PPOSCAR), POSCAR_unitcell,
                                                 written[PPOSCAR])
                            /\ Continue("run_displacements")
       ELSE /\ trace' = Append(trace, Event("copyfile", POSCAR_unitcell))
            /\ files' = Put(files, POSCAR_unitcell, files[POSCAR])
            /\ Continue("run_displacements")
    /\ UNCHANGED <<dirs, record, bandConf, runs, stage, config, folders, unconverged,
                   bandPath, start, saved>>

EnsurePoscarUnitcell ==
    /\ pc = "ensure_poscar_unitcell"
    /\ IF config[1].apply_symmetry
       THEN /\ \E outcome \in {"fail", "ok", "silent"} :
                LET written == IF outcome = "ok"
                               THEN Put(files, PPOSCAR, DataFile("reduced", <<>>, runs))
                               ELSE files
                IN  /\ trace' = trace \o Command("phonopy --symmetry", POSCAR, <<outcome>>,
                                                  outcome = "fail")
                    /\ IF outcome = "fail"
                       THEN /\ CommandFailed
                            /\ UNCHANGED files
                       ELSE IF PPOSCAR \notin DOMAIN written
                       THEN /\ Raise(Exception("FileNotFoundError", "ensure_poscar_unitcell",
                                               <<PPOSCAR>>))
                            /\ files' = written
                       ELSE \* an existing POSCAR-unitcell is unlinked, then PPOSCAR renamed
                            /\ files' = Put(Del(Del(written, POSCAR_unitcell), PPOSCAR),
                                            POSCAR_unitcell, written[PPOSCAR])
                            /\ Continue("run_displacements")
       ELSE /\ trace' = Append(trace, Event("copyfile", POSCAR_unitcell))
            /\ files' = Put(files, POSCAR_unitcell, files[POSCAR])
            /\ Continue("run_displacements")
    /\ UNCHANGED <<dirs, record, bandConf, runs, stage, config, folders, unconverged,
                   bandPath, start, saved>>

(***************************************************************************)
(* Displacement Generator: run_displacements.                              *)
(***************************************************************************)
\* Path.cwd().glob("POSCAR-*") restricted to regular files, sorted
GlobPoscarFiles(fs) == Sorted({n \in DOMAIN fs : StartsWith(n, Dash(POSCAR, <<>>))})

\* the files run_displacements relocates: two parts, the second all digits
IsDisplacementName(name) == Len(split(name)) = 2 /\ isdigit(split(name)[2])

\* the loop of run_displacements over poscar_files, from the working
\* directory (fs, ds): the working directory it leaves and the exception
\* that stopped it, if any
RECURSIVE RelocateMutantRecreate(_, _, _, _)
RelocateMutantRecreate(list, fs, ds, prefix) ==
    IF list = <<>> THEN [files |-> fs, dirs |-> ds, error |-> <<>>]
    ELSE LET src == Head(list)
             dest_dir == Dash(prefix, split(src)[2])
         IN  IF ~ IsDisplacementName(src) THEN RelocateMutantRecreate(Tail(list), fs, ds, prefix)
             ELSE IF dest_dir \in DOMAIN fs
             THEN [files |-> fs, dirs |-> ds,
                   error |-> <<Exception("FileExistsError", "run_displacements", <<dest_dir>>)>>]
             ELSE LET made == Put(ds, dest_dir, NoChildren)
                      moved == Put(made, dest_dir, Put(made[dest_dir], "POSCAR", fs[src]))
                  IN  RelocateMutantRecreate(Tail(list), Del(fs, src), moved, prefix)

RECURSIVE Relocate(_, _, _, _)
Relocate(list, fs, ds, prefix) ==
    IF list = <<>> THEN [files |-> fs, dirs |-> ds, error |-> <<>>]
    ELSE LET src == Head(list)
             dest_dir == Dash(prefix, split(src)[2])
         IN  IF ~ IsDisplacementName(src) THEN Relocate(Tail(list), fs, ds, prefix)
             ELSE IF dest_dir \in DOMAIN fs
             THEN \* mkdir(exist_ok=True) on an existing regular file
                  [files |-> fs, dirs |-> ds,
                   error |-> <<Exception("FileExistsError", "run_displacements", <<dest_dir>>)>>]
             ELSE LET made == IF dest_dir \in DOMAIN ds THEN ds
                              ELSE Put(ds, dest_dir, NoChildren)
                      moved == Put(made, dest_dir, Put(made[dest_dir], "POSCAR", fs[src]))
                  IN  Relocate(Tail(list), Del(fs, src), moved, prefix)

\* what `phonopy -d` leaves in the working directory when it writes the
\* displaced structures numbered gen
Displaced(fs, gen, run) ==
    [n \in DOMAIN fs \cup {Dash(POSCAR, k) : k \in gen} |->
        IF \E k \in gen : n = Dash(POSCAR, k)
        THEN DataFile("displacement", split(n)[2], run)
        ELSE fs[n]]

\* run_displacements.  `phonopy -d` exits non-zero, or exits 0 having written
\* the displaced structures numbered gen (possibly none).
RunDisplacements ==
    /\ pc = "run_displacements"
    /\ \/ /\ trace' = trace \o Command("phonopy -d", POSCAR_unitcell, <<>>, TRUE)
          /\ CommandFailed
          /\ UNCHANGED <<files, dirs>>
       \/ \E gen \in SUBSET Suffixes :
            LET written == Displaced(files, gen, runs)
                poscar_files == GlobPoscarFiles(written)
                r == Relocate(poscar_files, written, dirs, config[1].prefix)
            IN  /\ trace' = trace \o Command("phonopy -d", POSCAR_unitcell, Sorted(gen),
                                                  FALSE)
                /\ IF poscar_files = <<>>
                   THEN /\ Raise(Exception("RuntimeError", "run_displacements", <<>>))
                        /\ files' = written
                        /\ UNCHANGED dirs
                   ELSE /\ files' = r.files
                        /\ dirs' = r.dirs
                        /\ IF r.error # <<>> THEN Raise(r.error[1])
                           ELSE IF stage = "full" THEN Continue("run_postprocessing")
                           ELSE Return
    /\ UNCHANGED <<record, bandConf, runs, stage, config, folders, unconverged,
                   bandPath, start, saved>>

(***************************************************************************)
(* Convergence Validator: find_dispersion_folders, check_convergence and   *)
(* the validation loop of run_postprocessing.                              *)
(***************************************************************************)
\* re.compile(rf"^{re.escape(prefix)}-(\d+)$").match(name)
MatchesFolderPattern(name, prefix) ==
    /\ StartsWith(name, Dash(prefix, <<>>))
    /\ isdigit(SubSeq(name, Len(prefix) + 2, Len(name)))

\* find_dispersion_folders: the sorted glob of f"{prefix}-*", kept when a
\* directory whose name matches the pattern
find_dispersion_folders(fs, ds, prefix) ==
    LET candidates == Sorted({n \in DOMAIN fs \cup DOMAIN ds :
                                fnmatch(n, Dash(prefix, <<"*">>))})
    IN  SelectSeq(candidates, LAMBDA item :
                    item \in DOMAIN ds /\ MatchesFolderPattern(item, prefix))

\* the scan of check_convergence: the two flags after the loop, which
\* breaks as soon as both are set
RECURSIVE ScanMutantStopAtFirstMarker(_, _, _)
ScanMutantStopAtFirstMarker(lines, converged, finished) ==
    IF lines = <<>> THEN [converged |-> converged, finished |-> finished]
    ELSE LET c == converged \/ keyword_converged \in Head(lines)
             f == finished \/ keyword_finished \in Head(lines)
         IN  IF c \/ f THEN [converged |-> c, finished |-> f]
             ELSE ScanMutantStopAtFirstMarker(Tail(lines), c, f)

RECURSIVE Scan(_, _, _)
Scan(lines, converged, finished) ==
    IF lines = <<>> THEN [converged |-> converged, finished |-> finished]
    ELSE LET c == converged \/ keyword_converged \in Head(lines)
             f == finished \/ keyword_finished \in Head(lines)
         IN  IF c /\ f THEN [converged |-> c, finished |-> f]
             ELSE Scan(Tail(lines), c, f)

ReasonNotConverged == "EDIFF not reached"
ReasonNotFinished == "not terminated normally"

\* check_convergence on a folder's files: passes (ok), or raises RuntimeError
\* for a missing OUTCAR (reason <<>>) or with the state list as the reason
check_convergence(children) ==
    IF "OUTCAR" \notin DOMAIN children
    THEN [ok |-> FALSE, missing |-> TRUE, reason |-> <<>>]
    ELSE LET r == Scan(children["OUTCAR"].lines, FALSE, FALSE)
         IN  IF ~ (r.converged /\ r.finished)
             THEN [ok |-> FALSE, missing |-> FALSE,
                   reason |-> (IF ~ r.converged THEN <<ReasonNotConverged>> ELSE <<>>)
                              \o (IF ~ r.finished THEN <<ReasonNotFinished>> ELSE <<>>)]
             ELSE [ok |-> TRUE, missing |-> FALSE, reason |-> <<>>]

\* the loop of run_postprocessing over folders: unconverged_folders
RECURSIVE ValidateMutantStopAtFirstFailure(_, _)
ValidateMutantStopAtFirstFailure(list, ds) ==
    IF list = <<>> THEN <<>>
    ELSE IF check_convergence(ds[Head(list)]).ok
    THEN ValidateMutantStopAtFirstFailure(Tail(list), ds)
    ELSE <<Head(list)>>

RECURSIVE Validate(_, _)
Validate(list, ds) ==
    IF list = <<>> THEN <<>>
    ELSE (IF check_convergence(ds[Head(list)]).ok THEN <<>> ELSE <<Head(list)>>)
         \o Validate(Tail(list), ds)

Events(op, list) == [i \in 1..Len(list) |-> Event(op, list[i])]

\* what the loop logs: each folder checked, with the reason when it failed
CheckEvents(list, ds) ==
    [i \in 1..Len(list) |->
        LET r == check_convergence(ds[list[i]])
        IN  EventNote("check_convergence", list[i],
                      IF r.ok THEN <<"passed">>
                      ELSE IF r.missing THEN <<"OUTCAR missing">>
                      ELSE r.reason)]

\* run_postprocessing, up to find_dispersion_folders
FindDispersionFolders ==
    /\ pc = "run_postprocessing"
    /\ IF POSCAR_unitcell \notin DOMAIN files \cup DOMAIN dirs
       THEN /\ Raise(Exception("FileNotFoundError", "run_postprocessing",
                               <<POSCAR_unitcell>>))
            /\ UNCHANGED <<folders, trace>>
       ELSE LET found == find_dispersion_folders(files, dirs, config[1].prefix)
            IN  /\ trace' = Append(trace, Event("find_dispersion_folders", config[1].prefix))
                /\ IF found = <<>>
                   THEN /\ Raise(Exception("RuntimeError", "find_dispersion_folders", <<>>))
                        /\ UNCHANGED folders
                   ELSE /\ folders' = found
                        /\ Continue("check_convergence")
    /\ UNCHANGED <<disk, runs, stage, config, unconverged, bandPath, start, saved>>

\* run_postprocessing: the convergence checks and the aggregate error
ValidateAllMutantNoRaise ==
    /\ pc = "check_convergence"
    /\ unconverged' = Validate(folders, dirs)
    /\ trace' = trace \o CheckEvents(folders, dirs)
    /\ Continue("clean_empty_files")
    /\ UNCHANGED <<disk, runs, stage, config, folders, bandPath, start, saved>>

ValidateAll ==
    /\ pc = "check_convergence"
    /\ unconverged' = Validate(folders, dirs)
    /\ trace' = trace \o CheckEvents(folders, dirs)
    /\ IF unconverged' # <<>>
       THEN \* the message holds the count; the folders are logged one by one
            Raise(Exception("RuntimeError", "run_postprocessing", <<>>))
       ELSE Continue("clean_empty_files")
    /\ UNCHANGED <<disk, runs, stage, config, folders, bandPath, start, saved>>

(***************************************************************************)
(* Force-Set Aggregator: clean_empty_files, collect_vasprun_paths, the     *)
(* `phonopy -f` call and the FORCE_SETS check of run_postprocessing.       *)
(***************************************************************************)
\* clean_empty_files on one folder: its zero-byte files are unlinked
clean_empty_files(children) ==
    [c \in {x \in DOMAIN children : children[x].size # 0} |-> children[c]]

\* the cleanup loop over folders
CleanAll(list, ds) ==
    [d \in DOMAIN ds |->
        IF \E i \in 1..Len(list) : list[i] = d THEN clean_empty_files(ds[d]) ELSE ds[d]]

\* collect_vasprun_paths: the exception of the first folder whose vasprun.xml
\* is missing or empty, <<>> when every folder has one
RECURSIVE CollectMutantSkipMissing(_, _)
CollectMutantSkipMissing(list, ds) ==
    IF list = <<>> THEN <<>>
    ELSE IF "vasprun.xml" \in DOMAIN ds[Head(list)] /\ ds[Head(list)]["vasprun.xml"].size = 0
    THEN <<Exception("RuntimeError", "collect_vasprun_paths", <<Head(list)>>)>>
    ELSE CollectMutantSkipMissing(Tail(list), ds)

RECURSIVE collect_vasprun_paths(_, _)
collect_vasprun_paths(list, ds) ==
    IF list = <<>> THEN <<>>
    ELSE IF "vasprun.xml" \notin DOMAIN ds[Head(list)]
    THEN <<Exception("RuntimeError", "collect_vasprun_paths", <<Head(list)>>)>>
    ELSE IF ds[Head(list)]["vasprun.xml"].size = 0
    THEN <<Exception("RuntimeError", "collect_vasprun_paths", <<Head(list)>>)>>
    ELSE collect_vasprun_paths(Tail(list), ds)

\* run_postprocessing: the cleanup loop
CleanEmptyFiles ==
    /\ pc = "clean_empty_files"
    /\ dirs' = CleanAll(folders, dirs)
    /\ trace' = trace \o Events("clean_empty_files", folders)
    /\ Continue("collect_vasprun_paths")
    /\ UNCHANGED <<files, record, bandConf, runs, stage, config, folders, unconverged,
                   bandPath, start, saved>>

\* the FORCE_SETS check after `phonopy -f`
ForceSetsUsableMutantExistsOnly(fs) == FORCE_SETS \in DOMAIN fs

ForceSetsUsable(fs) == FORCE_SETS \in DOMAIN fs /\ fs[FORCE_SETS].size # 0

\* run_postprocessing: collect_vasprun_paths, `phonopy -f` and the check of
\* FORCE_SETS.  The tool exits non-zero ("fail"), or exits 0 having written
\* a FORCE_SETS with data ("data"), an empty one ("empty") or none ("none").
\* The event of the call notes the folders of its vasprun.xml arguments, in
\* the order of the arguments.
AggregateForceSets ==
    /\ pc = "collect_vasprun_paths"
    /\ LET bad == collect_vasprun_paths(folders, dirs)
       IN  IF bad # <<>>
           THEN /\ Raise(bad[1])
                /\ trace' = Append(trace, Event("collect_vasprun_paths", <<>>))
                /\ UNCHANGED files
           ELSE /\ \E outcome \in {"fail", "data", "empty", "none"} :
                     LET written ==
                            CASE outcome = "data" ->
                                   Put(files, FORCE_SETS, DataFile("forces", <<>>, runs))
                              [] outcome = "empty" -> Put(files, FORCE_SETS, EmptyFile)
                              [] OTHER -> files
                     IN  /\ files' = written
                         /\ trace' = trace \o <<Event("collect_vasprun_paths", <<>>)>>
                                \o Command("phonopy -f", <<>>, folders, outcome = "fail")
                         /\ IF outcome = "fail"
                            THEN CommandFailed
                            ELSE IF ~ ForceSetsUsable(written)
                            THEN Raise(Exception("RuntimeError", "run_postprocessing",
                                                 <<FORCE_SETS>>))
                            ELSE Continue("write_band_conf")
    /\ UNCHANGED <<dirs, record, bandConf, runs, stage, config, folders, unconverged,
                   bandPath, start, saved>>

(***************************************************************************)
(* Band-Path Resolver: determine_band_path and write_band_conf.            *)
(* A fractional coordinate is a fraction <<numerator, denominator>>.       *)
(***************************************************************************)
Zero == <<0, 1>>
Half == <<1, 2>>
Third == <<1, 3>>
MinusThird == <<-1, 3>>

\* the fallback_points table of determine_band_path
fallback_points_MutantK ==
    [G |-> <<Zero, Zero, Zero>>, M |-> <<Half, Zero, Zero>>, K |-> <<Third, Third, Zero>>]

fallback_points ==
    [G |-> <<Zero, Zero, Zero>>, M |-> <<Half, Zero, Zero>>, K |-> <<Third, MinusThird, Zero>>]

\* the key of the Gamma point the code looks up first (U+0393)
GammaSymbol == "U+0393"

\* what the crystallography helper answers: the import fails ("missing"),
\* read() or get_special_points() raises ("error"), or it returns the special
\* points of the lattice, keyed by "G" or by the Gamma symbol
HexagonalPoints ==
    [G |-> <<Zero, Zero, Zero>>, M |-> <<Half, Zero, Zero>>, K |-> <<Third, Third, Zero>>,
     A |-> <<Zero, Zero, Half>>]
GreekPoints ==
    (GammaSymbol :> <<Zero, Zero, Zero>>) @@ ("X" :> <<Half, Zero, Half>>)
HelperOutcomes ==
    {[outcome |-> "missing", points |-> <<>>],
     [outcome |-> "error", points |-> <<>>],
     [outcome |-> "ok", points |-> HexagonalPoints],
     [outcome |-> "ok", points |-> GreekPoints]}

\* what the operator types at the path prompt, split at blanks
PathInputs ==
    {<<"G", "M", "K", "G">>, <<"g", "a">>, <<"K">>, <<"G", "Q">>, <<"GAMMA", "X">>}

\* str.upper on the tokens used here
upper(token) ==
    CASE token = "g" -> "G"
      [] token = "a" -> "A"
      [] OTHER -> token

\* the built-in default path after the except clauses
DefaultBandPath ==
    [sequence |-> <<"G", "M", "K", "G">>,
     coordinates |-> [i \in 1..4 |-> fallback_points[<<"G", "M", "K", "G">>[i]]],
     labels |-> <<Gamma, "M", "K", Gamma>>,
     prompted |-> FALSE]

\* the coordinate of one symbol inside the try block: <<coordinate>>, or <<>>
\* for the RuntimeError of an unknown point
Coordinate(symbol, special_points) ==
    LET search_symbol == IF symbol \in {"G", "GAMMA"} THEN GammaSymbol ELSE symbol
    IN  IF search_symbol \in DOMAIN special_points THEN <<special_points[search_symbol]>>
        ELSE IF symbol \in DOMAIN special_points THEN <<special_points[symbol]>>
        ELSE IF symbol \in DOMAIN fallback_points THEN <<fallback_points[symbol]>>
        ELSE <<>>

\* determine_band_path: every exception raised inside the try block, the
\* ValueError of a short path and the RuntimeError of an unknown point
\* included, is caught and answered with the built-in default path
determine_band_path(helper, path_input) ==
    IF helper.outcome # "ok" THEN DefaultBandPath
    ELSE LET band_sequence == [i \in 1..Len(path_input) |-> upper(path_input[i])]
             coords == [i \in 1..Len(band_sequence) |->
                            Coordinate(band_sequence[i], helper.points)]
         IN  IF Len(band_sequence) < 2
             THEN [DefaultBandPath EXCEPT !.prompted = TRUE]
             ELSE IF \E i \in 1..Len(coords) : coords[i] = <<>>
             THEN [DefaultBandPath EXCEPT !.prompted = TRUE]
             ELSE [sequence |-> band_sequence,
                   coordinates |-> [i \in 1..Len(coords) |-> coords[i][1]],
                   labels |-> [i \in 1..Len(band_sequence) |->
                                 IF band_sequence[i] = "G" THEN Gamma ELSE band_sequence[i]],
                   prompted |-> TRUE]

\* f"{value:.6f}" as the number of millionths, rounded to nearest
Format6(x) == ((2 * 1000000 * x[1]) + x[2]) \div (2 * x[2])

\* read_atom_name_from_poscar: the element line, "BO3" when it cannot be read
read_atom_name_from_poscar(file) == IF file.size = 0 THEN DefaultAtomName ELSE "Si"

\* the contents of band.conf
BandConf(c, atom_name, path) ==
    [ATOM_NAME |-> atom_name,
     DIM |-> c.dims,
     BAND |-> [i \in 1..(3 * Len(path.coordinates)) |->
                 Format6(path.coordinates[((i - 1) \div 3) + 1][((i - 1) % 3) + 1])],
     BAND_POINTS |-> c.band_points,
     BAND_LABELS |-> path.labels]

\* write_band_conf
WriteBandConf ==
    /\ pc = "write_band_conf"
    /\ \E helper \in HelperOutcomes, path_input \in PathInputs :
         LET path == determine_band_path(helper, path_input)
         IN  /\ bandPath' = <<path>>
             /\ bandConf' = <<BandConf(config[1],
                                       read_atom_name_from_poscar(files[POSCAR_unitcell]),
                                       path)>>
             /\ trace' = trace
                  \o <<EventNote("determine_band_path", helper.points, <<helper.outcome>>)>>
                  \o (IF path.prompted THEN <<EventNote("prompt_user", <<>>, path_input)>>
                      ELSE <<>>)
                  \o <<Event("write band.conf", <<>>)>>
    /\ Continue("band")
    /\ UNCHANGED <<files, dirs, record, runs, stage, config, folders, unconverged, start,
                   saved>>

\* run_postprocessing: `phonopy -c POSCAR-unitcell band.conf -p -s`
BandComputationMutantPlotAnyway ==
    /\ pc = "band"
    /\ \/ /\ trace' = trace \o Command("phonopy band.conf", <<>>, <<>>, TRUE)
          /\ Continue("run_bandplot_to_file")
          /\ UNCHANGED files
       \/ /\ trace' = trace \o Command("phonopy band.conf", <<>>, <<>>, FALSE)
          /\ files' = Put(files, band_yaml, DataFile("bands", <<>>, runs))
          /\ Continue("run_bandplot_to_file")
    /\ UNCHANGED <<dirs, record, bandConf, runs, stage, config, folders, unconverged,
                   bandPath, start, saved>>

BandComputation ==
    /\ pc = "band"
    /\ \/ /\ trace' = trace \o Command("phonopy band.conf", <<>>, <<>>, TRUE)
          /\ CommandFailed
          /\ UNCHANGED files
       \/ /\ trace' = trace \o Command("phonopy band.conf", <<>>, <<>>, FALSE)
          /\ files' = Put(files, band_yaml, DataFile("bands", <<>>, runs))
          /\ Continue("run_bandplot_to_file")
    /\ UNCHANGED <<dirs, record, bandConf, runs, stage, config, folders, unconverged,
                   bandPath, start, saved>>

\* run_bandplot_to_file: phononband.out is opened for writing, then
\* phonopy-bandplot succeeds, exits non-zero, times out or cannot be started;
\* none of these ends the run, and main returns
RunBandplotToFileMutantRaise ==
    /\ pc = "run_bandplot_to_file"
    /\ \E outcome \in {"ok", "nonzero", "timeout", "oserror"} :
         /\ trace' = Append(trace, EventNote("phonopy-bandplot", <<>>, <<outcome>>))
         /\ files' = Put(files, phononband_out,
                         IF outcome = "ok" THEN DataFile("gnuplot", <<>>, runs) ELSE EmptyFile)
         /\ IF outcome = "ok" THEN Return
            ELSE Raise(Exception("RuntimeError", "run_bandplot_to_file", <<>>))
    /\ UNCHANGED <<dirs, record, bandConf, runs, stage, config, folders, unconverged,
                   bandPath, start, saved>>

RunBandplotToFile ==
    /\ pc = "run_bandplot_to_file"
    /\ \E outcome \in {"ok", "nonzero", "timeout", "oserror"} :
         /\ trace' = Append(trace, EventNote("phonopy-bandplot", <<>>, <<outcome>>))
         /\ files' = Put(files, phononband_out,
                         IF outcome = "ok" THEN DataFile("gnuplot", <<>>, runs) ELSE EmptyFile)
    /\ Return
    /\ UNCHANGED <<dirs, record, bandConf, runs, stage, config, folders, unconverged,
                   bandPath, start, saved>>

(***************************************************************************)
(* Between two invocations: the process is gone, and the operator runs     *)
(* VASP in a work directory.                                               *)
(***************************************************************************)
ProcessExit ==
    /\ pc = "done"
    /\ pc' = "idle"
    /\ stage' = ""
    /\ config' = <<>>
    /\ folders' = <<>>
    /\ unconverged' = <<>>
    /\ bandPath' = <<>>
    /\ trace' = <<>>
    /\ error' = <<>>
    /\ exitCode' = -1
    /\ start' = Snapshot
    /\ UNCHANGED <<disk, runs, saved>>

\* what a VASP run leaves in a work directory
VaspOutcomes ==
    {\* complete
     [OUTCAR |-> <<{keyword_converged}, {keyword_finished}>>, vasprun |-> "data"],
     \* the electronic loop did not converge
     [OUTCAR |-> <<{}, {keyword_finished}>>, vasprun |-> "data"],
     \* killed before the end
     [OUTCAR |-> <<{keyword_converged}>>, vasprun |-> "data"],
     \* crashed at once
     [OUTCAR |-> <<{}>>, vasprun |-> "empty"],
     \* complete, vasprun.xml truncated
     [OUTCAR |-> <<{keyword_finished}, {keyword_converged}>>, vasprun |-> "empty"],
     \* complete, vasprun.xml not kept
     [OUTCAR |-> <<{keyword_converged, keyword_finished}>>, vasprun |-> "none"]}

VaspRun ==
    /\ pc = "idle"
    /\ runs < MaxRuns
    /\ \E d \in DOMAIN dirs, o \in VaspOutcomes :
         /\ "POSCAR" \in DOMAIN dirs[d]
         /\ LET withLog == Put(dirs[d], "OUTCAR", LogFile(o.OUTCAR))
                withData ==
                    CASE o.vasprun = "data" ->
                           Put(withLog, "vasprun.xml", DataFile("forces", <<>>, 0))
                      [] o.vasprun = "empty" -> Put(withLog, "vasprun.xml", EmptyFile)
                      [] OTHER -> Del(withLog, "vasprun.xml")
            IN  dirs' = Put(dirs, d, withData)
    /\ start' = [start EXCEPT !.dirs = dirs']
    /\ UNCHANGED <<files, record, bandConf, runs, pc, proc, saved>>

\* the operator removes workflow_state.json
RemoveRecord ==
    /\ pc = "idle"
    /\ runs < MaxRuns
    /\ record # <<>>
    /\ record' = <<>>
    /\ start' = [start EXCEPT !.record = <<>>]
    /\ UNCHANGED <<files, dirs, bandConf, runs, pc, proc, saved>>

Next ==
    \/ ChooseStage
    \/ CollectConfiguration
    \/ CopyPoscarToWorkdir
    \/ EnsurePoscarUnitcell
    \/ RunDisplacements
    \/ FindDispersionFolders
    \/ ValidateAll
    \/ CleanEmptyFiles
    \/ AggregateForceSets
    \/ WriteBandConf
    \/ BandComputation
    \/ RunBandplotToFile
    \/ ProcessExit
    \/ VaspRun
    \/ RemoveRecord

Spec == Init /\ [][Next]_vars

(***************************************************************************)
(* The configuration store alone: a valid configuration is saved, then     *)
(* loaded with any stage as the argument.                                  *)
(***************************************************************************)
ValidConfigs ==
    {WorkflowConfig("pre", dims, prefix, path, sym, DefaultAtomName, points, band[1], band[2]) :
        dims \in [1..3 -> 1..MaxDim], prefix \in PrefixChoices,
        path \in {<<>>, <<SourceFile>>}, sym \in BOOLEAN,
        points \in {DefaultBandPoints, 2 * DefaultBandPoints - 1},
        band \in {<<DefaultBandLabels, DefaultBandSequence>>, <<<<"K", Gamma>>, <<"K", "G">>>>}}

InitSnapshot ==
    /\ files = [n \in {SourceFile} |-> DataFile("structure", <<>>, 0)]
    /\ dirs = NoDirs
    /\ record = <<>>
    /\ bandConf = <<>>
    /\ runs = 1
    /\ pc = "save_config_snapshot"
    /\ stage \in {"pre", "post", "full"}
    /\ \E c \in ValidConfigs : config = <<c>>
    /\ folders = <<>>
    /\ unconverged = <<>>
    /\ bandPath = <<>>
    /\ trace = <<>>
    /\ error = <<>>
    /\ exitCode = -1
    /\ start = [files |-> files, dirs |-> dirs, record |-> record, bandConf |-> bandConf]
    /\ saved = <<>>

SaveSnapshot ==
    /\ pc = "save_config_snapshot"
    /\ save_config_snapshot(config[1])
    /\ pc' = "load_config_snapshot"
    /\ UNCHANGED <<files, dirs, bandConf, runs, stage, config, folders, unconverged,
                   bandPath, trace, error, exitCode, start>>

LoadSnapshot ==
    /\ pc = "load_config_snapshot"
    /\ LoadConfigSnapshot
    /\ UNCHANGED <<files, dirs, bandConf, runs, stage, folders, unconverged, bandPath,
                   start>>

NextSnapshot == SaveSnapshot \/ LoadSnapshot

SpecSnapshot == InitSnapshot /\ [][NextSnapshot]_vars

(***************************************************************************)
(* The convergence check alone: a post-processing run has found one work   *)
(* directory, whose OUTCAR is absent or any log of at most MaxLogLen lines.*)
(***************************************************************************)
LineKinds == SUBSET {keyword_converged, keyword_finished}
Logs == UNION {[1..n -> LineKinds] : n \in 0..MaxLogLen}

ConvergenceConfig ==
    WorkflowConfig("post", <<2, 2, 2>>, <<"d", "i", "s", "p">>, <<SourceFile>>, TRUE,
                   DefaultAtomName, DefaultBandPoints, DefaultBandLabels,
                   DefaultBandSequence)
ConvergenceFolder == Dash(ConvergenceConfig.prefix, Suffix(1))

InitConvergence ==
    /\ files = [n \in {SourceFile, POSCAR, POSCAR_unitcell} |->
                   DataFile(IF n = POSCAR_unitcell THEN "reduced" ELSE "structure",
                            <<>>, IF n = SourceFile THEN 0 ELSE 1)]
    /\ \E children \in
            {[c \in {"POSCAR"} |-> DataFile("displacement", Suffix(1), 1)]}
            \cup {[c \in {"POSCAR", "OUTCAR"} |->
                     IF c = "POSCAR" THEN DataFile("displacement", Suffix(1), 1)
                     ELSE LogFile(log)] : log \in Logs} :
         dirs = [d \in {ConvergenceFolder} |-> children]
    /\ record = <<JObject(SaveData(ConvergenceConfig))>>
    /\ bandConf = <<>>
    /\ runs = 2
    /\ pc = "check_convergence"
    /\ stage = "post"
    /\ config = <<ConvergenceConfig>>
    /\ folders = <<ConvergenceFolder>>
    /\ unconverged = <<>>
    /\ bandPath = <<>>
    /\ trace = <<Event("choose_stage", <<>>), Event("load_config_snapshot", <<>>),
                 Event("find_dispersion_folders", ConvergenceConfig.prefix)>>
    /\ error = <<>>
    /\ exitCode = -1
    /\ start = [files |-> files, dirs |-> dirs, record |-> record, bandConf |-> bandConf]
    /\ saved = <<ConvergenceConfig>>

NextConvergence == ValidateAll

SpecConvergence == InitConvergence /\ [][NextConvergence]_vars

(***************************************************************************)
(* The loader alone: a post-stage run finds a workflow_state.json that was *)
(* written or edited by hand.  The record is any of the documents below:   *)
(* an object whose fields are present or absent, well-typed or not, or a   *)
(* text that is not an object at all.                                      *)
(***************************************************************************)
Absent == [t |-> "absent", v |-> <<>>]

DimsValues ==
    <<Absent,
      JList(<<JInt(2), JInt(2), JInt(2)>>),
      JList(<<JInt(1), JInt(1)>>),
      JList(<<JStr(<<"2">>), JStr(<<"2">>), JStr(<<"2">>)>>),
      JList(<<JStr(<<"a">>), JInt(2), JInt(2)>>),
      JList(<<JBool(TRUE), JInt(2), JInt(2)>>),
      JList(<<JNull, JInt(2), JInt(2)>>),
      JStr(<<"2", "2", "2">>),
      JInt(2),
      JNull>>

PrefixValues == <<Absent, JStr(<<"d", "i", "s", "p">>), JStr(<<>>), JInt(7), JNull>>

PathValues == <<Absent, JStr(SourceFile), JInt(5)>>

\* the JSON object with the fields that are not absent
ObjectOf(d, p, q) ==
    LET all == [dims |-> d, prefix |-> p, poscar_path |-> q]
    IN  [k \in {x \in DOMAIN all : all[x].t # "absent"} |-> all[k]]

\* the documents that are not an object
OtherDocuments ==
    <<JInvalid, JList(<<JInt(2), JInt(2), JInt(2)>>), JStr(<<"d", "i", "s", "p">>)>>

InitLoad ==
    /\ files = [n \in {SourceFile, POSCAR, POSCAR_unitcell} |->
                   DataFile(IF n = POSCAR_unitcell THEN "reduced" ELSE "structure",
                            <<>>, IF n = SourceFile THEN 0 ELSE 1)]
    /\ dirs = NoDirs
    /\ \/ \E i \in DOMAIN DimsValues, j \in DOMAIN PrefixValues, k \in DOMAIN PathValues :
             record = <<JObject(ObjectOf(DimsValues[i], PrefixValues[j], PathValues[k]))>>
       \/ \E i \in DOMAIN OtherDocuments : record = <<OtherDocuments[i]>>
    /\ bandConf = <<>>
    /\ runs = 2
    /\ pc = "collect_configuration"
    /\ stage = "post"
    /\ config = <<>>
    /\ folders = <<>>
    /\ unconverged = <<>>
    /\ bandPath = <<>>
    /\ trace = <<Event("choose_stage", <<>>)>>
    /\ error = <<>>
    /\ exitCode = -1
    /\ start = [files |-> files, dirs |-> dirs, record |-> record, bandConf |-> bandConf]
    /\ saved = <<>>

NextLoad == CollectConfiguration

SpecLoad == InitLoad /\ [][NextLoad]_vars

(***************************************************************************)
(* The loader on older records: dims and prefix are there, and any of the  *)
(* optional keys may be missing; the loader is called with any stage.      *)
(***************************************************************************)
OptionalKeys ==
    {"atom_name", "band_points", "band_labels", "band_sequence", "poscar_path",
     "apply_symmetry"}

\* a configuration none of whose optional fields has its default
CustomConfig ==
    WorkflowConfig("pre", <<1, 1, 3>>, <<"d", "i", "s", "p">>, <<SourceFile>>, FALSE, "Si",
                   2 * DefaultBandPoints - 1, <<"K", Gamma>>, <<"K", "G">>)

\* its record, with only the optional keys of present
RecordWith(present) ==
    JObject([k \in {"dims", "prefix"} \cup present |-> SaveData(CustomConfig)[k]])

InitDefaults ==
    /\ files = [n \in {SourceFile, POSCAR, POSCAR_unitcell} |->
                   DataFile(IF n = POSCAR_unitcell THEN "reduced" ELSE "structure",
                            <<>>, IF n = SourceFile THEN 0 ELSE 1)]
    /\ dirs = NoDirs
    /\ \E present \in SUBSET OptionalKeys : record = <<RecordWith(present)>>
    /\ bandConf = <<>>
    /\ runs = 2
    /\ pc = "load_config_snapshot"
    /\ stage \in {"pre", "post", "full"}
    /\ config = <<>>
    /\ folders = <<>>
    /\ unconverged = <<>>
    /\ bandPath = <<>>
    /\ trace = <<Event("choose_stage", <<>>)>>
    /\ error = <<>>
    /\ exitCode = -1
    /\ start = [files |-> files, dirs |-> dirs, record |-> record, bandConf |-> bandConf]
    /\ saved = <<CustomConfig>>

NextDefaults == LoadSnapshot

SpecDefaults == InitDefaults /\ [][NextDefaults]_vars

(***************************************************************************)
(* Post-processing from find_dispersion_folders to the aggregation call,   *)
(* on a working directory prepared by hand: directories and a plain file   *)
(* whose names start with the prefix, for a prefix of letters and for one  *)
(* that holds the characters "[" and "]".                                  *)
(***************************************************************************)
FolderPrefixes == {<<"d", "i", "s", "p">>, <<"d", "[", "1", "]">>}

FolderConfig(prefix) ==
    WorkflowConfig("post", <<2, 2, 2>>, prefix, <<SourceFile>>, TRUE,
                   DefaultAtomName, DefaultBandPoints, DefaultBandLabels,
                   DefaultBandSequence)

\* the directories that may be there: {prefix}-2, {prefix}-10, {prefix}-x,
\* {prefix}-1-2 and d1-2
FolderNames(prefix) ==
    {Dash(prefix, <<"2">>), Dash(prefix, <<"1", "0">>), Dash(prefix, <<"x">>),
     Dash(prefix, <<"1", "-", "2">>), Dash(<<"d", "1">>, <<"2">>)}

\* the plain file that may be there: {prefix}-3
FolderFile(prefix) == Dash(prefix, <<"3">>)

\* a directory after a complete calculation, and one with no calculation
FolderContents ==
    {[c \in {"POSCAR", "OUTCAR", "vasprun.xml"} |->
         CASE c = "POSCAR" -> DataFile("displacement", <<>>, 1)
           [] c = "OUTCAR" -> LogFile(<<{keyword_converged}, {keyword_finished}>>)
           [] OTHER -> DataFile("forces", <<>>, 0)],
     [c \in {"POSCAR"} |-> DataFile("displacement", <<>>, 1)]}

InitFolders ==
    /\ \E prefix \in FolderPrefixes :
         /\ config = <<FolderConfig(prefix)>>
         /\ \E present \in SUBSET {POSCAR_unitcell, FolderFile(prefix)} :
              files = [n \in {SourceFile, POSCAR} \cup present |->
                          DataFile(IF n = POSCAR_unitcell THEN "reduced" ELSE "structure",
                                   <<>>, IF n = SourceFile THEN 0 ELSE 1)]
         /\ \E names \in SUBSET FolderNames(prefix) : dirs \in [names -> FolderContents]
    /\ record = <<JObject(SaveData(config[1]))>>
    /\ bandConf = <<>>
    /\ runs = 2
    /\ pc = "run_postprocessing"
    /\ stage = "post"
    /\ folders = <<>>
    /\ unconverged = <<>>
    /\ bandPath = <<>>
    /\ trace = <<Event("choose_stage", <<>>), Event("load_config_snapshot", <<>>)>>
    /\ error = <<>>
    /\ exitCode = -1
    /\ start = [files |-> files, dirs |-> dirs, record |-> record, bandConf |-> bandConf]
    /\ saved = config

NextFolders ==
    \/ FindDispersionFolders
    \/ ValidateAll
    \/ CleanEmptyFiles
    \/ AggregateForceSets

SpecFolders == InitFolders /\ [][NextFolders]_vars

(***************************************************************************)
(* Properties.                                                             *)
(***************************************************************************)
HasEvent(op) == \E i \in 1..Len(trace) : trace[i].op = op
LastEvent == trace[Len(trace)]
Range(seq) == {seq[i] : i \in 1..Len(seq)}

\* the steps that list, read or change a work directory or call a tool
WorkSteps ==
    {"copy_poscar_to_workdir", "copyfile", "phonopy --symmetry", "phonopy -d",
     "find_dispersion_folders", "check_convergence", "clean_empty_files",
     "collect_vasprun_paths", "phonopy -f", "determine_band_path", "write band.conf",
     "phonopy band.conf", "phonopy-bandplot"}

\* the steps of run_postprocessing that follow the convergence checks
StepsAfterValidation ==
    {"clean_empty_files", "collect_vasprun_paths", "phonopy -f", "determine_band_path",
     "write band.conf", "phonopy band.conf", "phonopy-bandplot"}

MissingConfiguration == Exception("FileNotFoundError", "load_config_snapshot", <<>>)
UnconvergedBatch == Exception("RuntimeError", "run_postprocessing", <<>>)

\* C1: a post-only run started without workflow_state.json, once the
\* configuration step is over, has ended with the missing-configuration error
\* and exit code 1, and nothing but the stage prompt and the load attempt has
\* happened: no work step, and the working directory is as it was.
C1_PostWithoutRecordFails ==
    (stage = "post" /\ start.record = <<>> /\ pc # "collect_configuration")
        => /\ pc = "done"
           /\ exitCode = 1
           /\ error = <<MissingConfiguration>>
           /\ \A i \in 1..Len(trace) : trace[i].op \notin WorkSteps
           /\ Snapshot = start

C1_Witness ==
    /\ pc = "done"
    /\ stage = "post"
    /\ start.record = <<>>
    /\ exitCode = 1
    /\ \E d \in DOMAIN dirs : "OUTCAR" \in DOMAIN dirs[d]

\* the single-directory check, stated on the log as a whole: the OUTCAR is
\* there and each marker occurs in some line of it
HasMarker(children, keyword) ==
    \E i \in 1..Len(children["OUTCAR"].lines) : keyword \in children["OUTCAR"].lines[i]
PassesCheck(children) ==
    /\ "OUTCAR" \in DOMAIN children
    /\ HasMarker(children, keyword_converged)
    /\ HasMarker(children, keyword_finished)

\* the convergence checks are the last thing this run has done
JustValidated == trace # <<>> /\ LastEvent.op = "check_convergence"

\* C2: when the convergence checks are over, every folder has been checked,
\* the accumulated failure list holds exactly the folders that fail the
\* single-directory check (each once, in folder order), and the aggregate
\* error has been raised if and only if that list is not empty.
C2_AllFailuresAccumulated ==
    JustValidated =>
        LET failing == {d \in Range(folders) : ~ PassesCheck(dirs[d])}
        IN  /\ Range(unconverged) = failing
            /\ Len(unconverged) = Cardinality(failing)
            /\ \A d \in Range(folders) :
                 \E i \in 1..Len(trace) :
                    trace[i].op = "check_convergence" /\ trace[i].on = d
            /\ (pc = "done" /\ error = <<UnconvergedBatch>>) <=> (failing # {})
            /\ (failing = {}) => (pc = "clean_empty_files" /\ error = <<>>)

\* both folders fail, the first for a missing OUTCAR
C2_Witness ==
    /\ JustValidated
    /\ Len(folders) = 2
    /\ Len(unconverged) = 2
    /\ "OUTCAR" \notin DOMAIN dirs[folders[1]]
    /\ "OUTCAR" \in DOMAIN dirs[folders[2]]
    /\ error = <<UnconvergedBatch>>

\* C3: once a folder has failed the convergence check of this run, the run
\* has ended in failure with no later step: no cleanup, no phonopy -f, no
\* band.conf, no band computation, no plot; a post-only run has left the
\* working directory as it found it.
C3_NoStepAfterFailedValidation ==
    (HasEvent("check_convergence") /\ \E d \in Range(folders) : ~ PassesCheck(dirs[d]))
        => /\ pc = "done"
           /\ exitCode = 1
           /\ \A i \in 1..Len(trace) : trace[i].op \notin StepsAfterValidation
           /\ stage = "post" => Snapshot = start

\* one folder of two has failed, the other holds a zero-length vasprun.xml
C3_Witness ==
    /\ pc = "done"
    /\ stage = "post"
    /\ Len(folders) = 2
    /\ Len(unconverged) = 1
    /\ \E d \in Range(folders) :
         /\ PassesCheck(dirs[d])
         /\ "vasprun.xml" \in DOMAIN dirs[d]
         /\ dirs[d]["vasprun.xml"].size = 0

\* C4: a valid configuration that was saved and then loaded comes back with
\* the supercell dims, the folder prefix, the symmetry flag, the band point
\* count, the band labels and the band sequence it was saved with, and with
\* the stage of the load.
C4_SaveLoadRoundTrip ==
    (pc \notin {"save_config_snapshot", "load_config_snapshot"})
        => /\ error = <<>>
           /\ config # <<>>
           /\ config[1].dims = saved[1].dims
           /\ config[1].prefix = saved[1].prefix
           /\ config[1].apply_symmetry = saved[1].apply_symmetry
           /\ config[1].band_points = saved[1].band_points
           /\ config[1].band_labels = saved[1].band_labels
           /\ config[1].band_sequence = saved[1].band_sequence
           /\ config[1].stage = stage

\* a configuration none of whose persisted fields is the default, saved by
\* a pre-stage run and loaded for the post stage
C4_Witness ==
    /\ pc = "run_postprocessing"
    /\ saved # <<>>
    /\ saved[1].stage = "pre"
    /\ config[1].stage = "post"
    /\ config[1].dims = <<1, 2, 1>>
    /\ config[1].prefix = POSCAR
    /\ ~ config[1].apply_symmetry
    /\ config[1].band_points # DefaultBandPoints
    /\ config[1].band_sequence = <<"K", "G">>
    /\ config[1].band_labels = <<"K", Gamma>>

\* C5: a folder whose OUTCAR exists passes check_convergence exactly when
\* each of the two markers occurs in some line of the log, wherever the lines
\* are; when it fails, the reason lists exactly the markers that occur
\* nowhere (EDIFF first).
C5_PassesIffBothMarkersOccur ==
    (JustValidated /\ "OUTCAR" \in DOMAIN dirs[folders[1]])
        => LET children == dirs[folders[1]]
               conv == HasMarker(children, keyword_converged)
               fin == HasMarker(children, keyword_finished)
           IN  /\ (unconverged = <<>>) <=> (conv /\ fin)
               /\ (unconverged = <<>>) => LastEvent.note = <<"passed">>
               /\ (unconverged # <<>>) =>
                    LastEvent.note = (IF conv THEN <<>> ELSE <<ReasonNotConverged>>)
                                     \o (IF fin THEN <<>> ELSE <<ReasonNotFinished>>)

\* the termination marker comes first, the threshold marker two lines later
C5_Witness ==
    /\ JustValidated
    /\ unconverged = <<>>
    /\ "OUTCAR" \in DOMAIN dirs[folders[1]]
    /\ LET lines == dirs[folders[1]]["OUTCAR"].lines
       IN  /\ Len(lines) = 3
           /\ lines[1] = {keyword_finished}
           /\ lines[2] = {}
           /\ lines[3] = {keyword_converged}

\* the command op of this run exited with status 0
Succeeded(op) ==
    \E i \in 1..Len(trace) :
        /\ trace[i].op = op
        /\ (i = Len(trace) \/ trace[i + 1].op # "command failed")

\* the numbered suffixes `phonopy -d` wrote in this run
Generated == UNION {Range(trace[i].note) : i \in {j \in 1..Len(trace) : trace[j].op = "phonopy -d"}}

\* the work directories of this run: for every generated k, {prefix}-k is a
\* directory that holds the generated structure as POSCAR, and POSCAR-k is
\* gone from the working directory
Relocated ==
    /\ \A k \in Generated :
         LET d == Dash(config[1].prefix, k)
         IN  /\ d \in DOMAIN dirs
             /\ "POSCAR" \in DOMAIN dirs[d]
             /\ dirs[d]["POSCAR"] = DataFile("displacement", k, runs)
             /\ Dash(POSCAR, k) \notin DOMAIN files
    /\ Cardinality({Dash(config[1].prefix, k) : k \in Generated} \cap DOMAIN dirs)
         = Cardinality(Generated)

\* C6: for every prefix, once `phonopy -d` has left N >= 1 numbered files
\* POSCAR-k and run_displacements is over, there are N work directories
\* {prefix}-k, one per generated k, each with the generated file as its
\* POSCAR, and no generated POSCAR-k is left in the working directory.
C6_EveryPrefixRelocates ==
    (Succeeded("phonopy -d") /\ Generated # {}) => Relocated

\* the same, for a prefix whose work-directory names are not names of the
\* generated files
C6_RelocatesUnlessNameTaken ==
    (Succeeded("phonopy -d") /\ Generated # {} /\ config[1].prefix # POSCAR) => Relocated

NoDisplacementsProduced == Exception("RuntimeError", "run_displacements", <<>>)

\* C7: when `phonopy -d` exits with status 0 and writes no numbered file,
\* the run has ended with the no-displacements error and exit code 1.
C7_NoDisplacementsFails ==
    (Succeeded("phonopy -d") /\ Generated = {})
        => /\ pc = "done"
           /\ exitCode = 1
           /\ error = <<NoDisplacementsProduced>>

\* vasprun.xml is absent from the folder or zero-length
BadVasprun(children) ==
    "vasprun.xml" \notin DOMAIN children \/ children["vasprun.xml"].size = 0

\* the first folder, in the order of the aggregation, with no usable
\* vasprun.xml in the directories ds
FirstBad(ds) ==
    folders[CHOOSE i \in 1..Len(folders) :
                /\ BadVasprun(ds[folders[i]])
                /\ \A j \in 1..(i - 1) : ~ BadVasprun(ds[folders[j]])]

\* C8: once every folder has passed the convergence checks and the run has
\* come to collect the vasprun.xml files, a folder whose vasprun.xml is
\* absent or zero-length (when the post-only run started, or now) means the
\* run has failed with the error of collect_vasprun_paths naming the first
\* such folder, and `phonopy -f` was not called.
C8_EmptyOrMissingVasprunStopsAggregation ==
    HasEvent("collect_vasprun_paths") =>
        /\ (\E d \in Range(folders) : BadVasprun(dirs[d]))
             => /\ pc = "done"
                /\ exitCode = 1
                /\ error = <<Exception("RuntimeError", "collect_vasprun_paths",
                                       <<FirstBad(dirs)>>)>>
                /\ ~ HasEvent("phonopy -f")
        /\ (stage = "post" /\ \E d \in Range(folders) : BadVasprun(start.dirs[d]))
             => /\ pc = "done"
                /\ exitCode = 1
                /\ error = <<Exception("RuntimeError", "collect_vasprun_paths",
                                       <<FirstBad(start.dirs)>>)>>
                /\ ~ HasEvent("phonopy -f")

\* two converged folders; the first has data, the second started with a
\* zero-length vasprun.xml
C8_Witness ==
    /\ pc = "done"
    /\ stage = "post"
    /\ HasEvent("collect_vasprun_paths")
    /\ Len(folders) = 2
    /\ ~ BadVasprun(start.dirs[folders[1]])
    /\ "vasprun.xml" \in DOMAIN start.dirs[folders[2]]
    /\ start.dirs[folders[2]]["vasprun.xml"].size = 0
    /\ error # <<>>
    /\ error[1].names = <<folders[2]>>

EmptyAggregate == Exception("RuntimeError", "run_postprocessing", <<FORCE_SETS>>)

\* C9: once `phonopy -f` has exited with status 0, a FORCE_SETS that is
\* absent or zero-length means the run has ended with the empty-aggregate
\* error; and whenever band.conf has been written or the band computation
\* called in this run, FORCE_SETS exists and is not empty.
C9_ForceSetsCheckedAfterAggregation ==
    /\ (Succeeded("phonopy -f") /\ (FORCE_SETS \notin DOMAIN files \/ files[FORCE_SETS].size = 0))
         => /\ pc = "done"
            /\ exitCode = 1
            /\ error = <<EmptyAggregate>>
    /\ (HasEvent("write band.conf") \/ HasEvent("phonopy band.conf"))
         => /\ FORCE_SETS \in DOMAIN files
            /\ files[FORCE_SETS].size # 0

\* the tool exited with status 0 and left a zero-length FORCE_SETS
C9_Witness ==
    /\ pc = "done"
    /\ Succeeded("phonopy -f")
    /\ FORCE_SETS \in DOMAIN files
    /\ files[FORCE_SETS].size = 0
    /\ error = <<EmptyAggregate>>

\* the helper of this run was unavailable or raised
HelperFailed ==
    \E i \in 1..Len(trace) :
        /\ trace[i].op = "determine_band_path"
        /\ trace[i].note \in {<<"missing">>, <<"error">>}

\* C10: when the crystallography helper is unavailable or raises,
\* determine_band_path returns the sequence G M K G, the coordinates (0,0,0),
\* (1/2,0,0), (1/3,-1/3,0), (0,0,0) and the labels Gamma M K Gamma, the
\* operator is not prompted for a path, and the run goes on to write
\* band.conf.
C10_FallbackBandPath ==
    HelperFailed =>
        /\ bandPath # <<>>
        /\ bandPath[1].sequence = <<"G", "M", "K", "G">>
        /\ bandPath[1].coordinates =
             << <<<<0, 1>>, <<0, 1>>, <<0, 1>>>>,
                <<<<1, 2>>, <<0, 1>>, <<0, 1>>>>,
                <<<<1, 3>>, <<-1, 3>>, <<0, 1>>>>,
                <<<<0, 1>>, <<0, 1>>, <<0, 1>>>> >>
        /\ bandPath[1].labels = <<"$\\Gamma$", "M", "K", "$\\Gamma$">>
        /\ \A i \in 1..Len(trace) :
             trace[i].op = "determine_band_path"
                => /\ i < Len(trace)
                   /\ trace[i + 1].op = "write band.conf"
        /\ HasEvent("write band.conf")
        /\ bandConf # <<>>
        /\ bandConf[1].BAND = <<0, 0, 0, 500000, 0, 0, 333333, -333333, 0, 0, 0, 0>>
        /\ ~ (error # <<>> /\ LastEvent.op = "write band.conf")

\* the helper raised, and the run went on to the band computation
C10_Witness ==
    /\ \E i \in 1..Len(trace) :
         trace[i].op = "determine_band_path" /\ trace[i].note = <<"error">>
    /\ HasEvent("phonopy band.conf")
    /\ bandPath # <<>>

\* the helper of this run answered with the special points of the lattice,
\* and the operator was asked for a path
HelperAnswered ==
    \E i \in 1..(Len(trace) - 1) :
        /\ trace[i].op = "determine_band_path"
        /\ trace[i].note = <<"ok">>
        /\ trace[i + 1].op = "prompt_user"

\* the special points the helper answered with, and the labels the operator
\* typed, upper-cased
AnsweredPoints ==
    trace[CHOOSE i \in 1..Len(trace) : trace[i].op = "determine_band_path"].on
TypedLabels ==
    LET i == CHOOSE j \in 1..Len(trace) : trace[j].op = "determine_band_path"
    IN  [k \in 1..Len(trace[i + 1].note) |-> upper(trace[i + 1].note[k])]

InsufficientBandPath == Exception("ValueError", "determine_band_path", <<>>)

\* C11: when the helper has answered and the operator typed fewer than two
\* labels, the run has ended with the insufficient-band-path error: no band
\* path was returned, band.conf was not written and the band computation was
\* not called.
C11_ShortPathFails ==
    (HelperAnswered /\ Len(TypedLabels) < 2)
        => /\ pc = "done"
           /\ exitCode = 1
           /\ error = <<InsufficientBandPath>>
           /\ bandPath = <<>>
           /\ bandConf = start.bandConf
           /\ ~ HasEvent("write band.conf")
           /\ ~ HasEvent("phonopy band.conf")

\* what the program does with a short path: the built-in default path is
\* written to band.conf and the run goes on
C11_ShortPathFallsBack ==
    (HelperAnswered /\ Len(TypedLabels) < 2)
        => /\ bandPath # <<>>
           /\ bandPath[1].sequence = <<"G", "M", "K", "G">>
           /\ HasEvent("write band.conf")
           /\ error = <<>> \/ HasEvent("command failed")

\* the fixed table of the resolver
FixedTable ==
    [G |-> <<<<0, 1>>, <<0, 1>>, <<0, 1>>>>,
     M |-> <<<<1, 2>>, <<0, 1>>, <<0, 1>>>>,
     K |-> <<<<1, 3>>, <<-1, 3>>, <<0, 1>>>>]

\* the label is known to the helper, as itself or (G, GAMMA) as the helper's
\* Gamma symbol
KnownToHelper(label, points) ==
    \/ label \in DOMAIN points
    \/ label \in {"G", "GAMMA"} /\ GammaSymbol \in DOMAIN points

UnknownLabels(labels, points) ==
    {k \in 1..Len(labels) : ~ KnownToHelper(labels[k], points) /\ labels[k] \notin DOMAIN FixedTable}

UnknownHighSymmetryPoint(label) == Exception("RuntimeError", "determine_band_path", <<label>>)

\* C12: when the helper has answered and the operator typed at least two
\* labels, a label neither known to the helper nor in the fixed table means
\* the run has ended with the unknown-point error naming the first such
\* label; otherwise a path was returned, in which every label unknown to the
\* helper has the coordinates of the fixed table.
C12_UnknownLabelFails ==
    (HelperAnswered /\ Len(TypedLabels) >= 2)
        => LET unknown == UnknownLabels(TypedLabels, AnsweredPoints)
           IN  /\ unknown # {}
                    => /\ pc = "done"
                       /\ exitCode = 1
                       /\ error = <<UnknownHighSymmetryPoint(
                                       TypedLabels[CHOOSE k \in unknown :
                                                      \A m \in unknown : k <= m])>>
                       /\ ~ HasEvent("write band.conf")
               /\ unknown = {}
                    => /\ bandPath # <<>>
                       /\ bandPath[1].sequence = TypedLabels
                       /\ \A k \in 1..Len(TypedLabels) :
                            ~ KnownToHelper(TypedLabels[k], AnsweredPoints)
                                => bandPath[1].coordinates[k] = FixedTable[TypedLabels[k]]

\* the second half alone: every label the helper does not know is in the
\* fixed table, and gets its coordinates
C12_FixedTablePerLabel ==
    (HelperAnswered /\ Len(TypedLabels) >= 2 /\ UnknownLabels(TypedLabels, AnsweredPoints) = {})
        => /\ bandPath # <<>>
           /\ bandPath[1].sequence = TypedLabels
           /\ \A k \in 1..Len(TypedLabels) :
                ~ KnownToHelper(TypedLabels[k], AnsweredPoints)
                    => bandPath[1].coordinates[k] = FixedTable[TypedLabels[k]]

\* the position of the first event op in the trace, 0 when there is none
FirstIndex(op) ==
    IF HasEvent(op) THEN CHOOSE i \in 1..Len(trace) :
                            trace[i].op = op /\ \A j \in 1..(i - 1) : trace[j].op # op
    ELSE 0

\* the steps of structure preparation and of the displacement generator
PreprocessingSteps == {"copy_poscar_to_workdir", "copyfile", "phonopy --symmetry", "phonopy -d"}

\* C13: in a pre-stage run the configuration record is written only after
\* `phonopy -d` has succeeded and the generated files were relocated, and a
\* pre-stage run that has failed in structure preparation or displacement
\* generation has left the record as it found it.
C13_RecordSavedAfterDisplacements ==
    stage = "pre" =>
        /\ HasEvent("save_config_snapshot")
             => /\ Succeeded("phonopy -d")
                /\ FirstIndex("phonopy -d") < FirstIndex("save_config_snapshot")
        /\ (pc = "done" /\ exitCode = 1) => record = start.record

\* what the program does: the record is written by collect_configuration,
\* before any step of pre-processing, and holds the collected configuration
\* whatever becomes of the run
C13_RecordSavedBeforePreprocessing ==
    (stage \in {"pre", "full"} /\ pc # "collect_configuration")
        => /\ record = <<JObject(SaveData(config[1]))>>
           /\ \A i \in 1..Len(trace) :
                trace[i].op \in PreprocessingSteps => FirstIndex("save_config_snapshot") < i

\* the step of the post stage an event belongs to: 1 configuration load,
\* 2 validate_all, 3 force-set aggregation, 4 band-path resolution, 5 band
\* computation, 6 plotting (0: not a step of the post stage)
PostStep(op) ==
    CASE op = "load_config_snapshot" -> 1
      [] op \in {"find_dispersion_folders", "check_convergence"} -> 2
      [] op \in {"clean_empty_files", "collect_vasprun_paths", "phonopy -f"} -> 3
      [] op \in {"determine_band_path", "prompt_user", "write band.conf"} -> 4
      [] op = "phonopy band.conf" -> 5
      [] op = "phonopy-bandplot" -> 6
      [] OTHER -> 0

\* the events of the trace that are steps (the logged failure of a command
\* belongs to the command before it)
StepEvents == SelectSeq(trace, LAMBDA e : e.op \notin {"choose_stage", "command failed"})

Started(k) == \E i \in 1..Len(StepEvents) : PostStep(StepEvents[i].op) = k

\* step k of the post stage has completed successfully
Completed(k) ==
    CASE k = 1 -> config # <<>>
      [] k = 2 -> /\ folders # <<>>
                  /\ unconverged = <<>>
                  /\ \A d \in Range(folders) :
                       \E i \in 1..Len(trace) :
                          /\ trace[i].op = "check_convergence"
                          /\ trace[i].on = d
                          /\ trace[i].note = <<"passed">>
      [] k = 3 -> /\ Succeeded("phonopy -f")
                  /\ FORCE_SETS \in DOMAIN files
                  /\ files[FORCE_SETS].size # 0
      [] k = 4 -> bandPath # <<>> /\ bandConf # <<>> /\ HasEvent("write band.conf")
      [] k = 5 -> Succeeded("phonopy band.conf")
      [] OTHER -> TRUE

\* C14: in a post-stage run the events follow the order load, validate_all,
\* aggregation, band-path resolution, band computation, plotting; a step has
\* started only when every earlier step has completed successfully (so after
\* a failed step no later step is executed); a failure ends the run; and a
\* run that ends with success has gone through all six steps.
C14_PostStepsInOrder ==
    stage = "post" =>
        /\ \A i \in 1..Len(StepEvents) :
             /\ PostStep(StepEvents[i].op) \in 1..6
             /\ \A j \in 1..(i - 1) : PostStep(StepEvents[j].op) <= PostStep(StepEvents[i].op)
        /\ \A k \in 1..6 : Started(k) => \A j \in 1..(k - 1) : Started(j) /\ Completed(j)
        /\ \A i \in 1..Len(trace) : trace[i].op = "command failed" => i = Len(trace)
        /\ (error # <<>> \/ HasEvent("command failed")) => pc = "done" /\ exitCode = 1
        /\ (pc = "done" /\ exitCode = 0) => \A k \in 1..6 : Started(k)

\* a post-stage run over two work directories that went through the six steps
C14_Witness ==
    /\ stage = "post"
    /\ pc = "done"
    /\ Started(6)
    /\ Len(folders) = 2

\* C15: in a full-stage run, once the configuration is collected, the
\* configuration in memory is the one the operator gave, the record is never
\* read, the post phase looks for the folders of the collected prefix and
\* writes the collected dims to band.conf, and the record on disk is one from
\* which a post-only run loads the same dims and prefix; loaded with the same
\* stage it is the very configuration the post phase is working with, so the
\* post phase is the one a post-stage run would perform after this pre phase.
C15_FullIsPreThenPost ==
    (stage = "full" /\ pc # "collect_configuration")
        => /\ ~ HasEvent("load_config_snapshot")
           /\ config = saved
           /\ record # <<>>
           /\ LET later == LoadDocument(record[1], "post")
              IN  /\ later.ok
                  /\ later.config[1].dims = config[1].dims
                  /\ later.config[1].prefix = config[1].prefix
           /\ LoadDocument(record[1], "full").config = config
           /\ \A i \in 1..Len(trace) :
                trace[i].op = "find_dispersion_folders" => trace[i].on = config[1].prefix
           /\ HasEvent("write band.conf") => bandConf[1].DIM = config[1].dims

\* a full-stage run with dims 1 1 3 whose post phase has written band.conf
C15_Witness ==
    /\ stage = "full"
    /\ config # <<>>
    /\ config[1].dims = <<1, 1, 3>>
    /\ HasEvent("phonopy -d")
    /\ HasEvent("write band.conf")

\* a step of this run has failed: a command exited non-zero, or an exception
\* reached main
StepFailed == HasEvent("command failed") \/ error # <<>>

\* the run has come to the last step of its stage: run_displacements for
\* pre, the plot for post and full
RunComplete ==
    /\ trace # <<>>
    /\ LastEvent.op = (IF stage = "pre" THEN "phonopy -d" ELSE "phonopy-bandplot")

\* the plot of this run did not succeed, or the helper was unavailable or raised
BestEffortFailed ==
    \/ HelperFailed
    \/ \E i \in 1..Len(trace) : trace[i].op = "phonopy-bandplot" /\ trace[i].note # <<"ok">>

\* C16: a run that has ended has exit code 1 if a step failed (a non-zero
\* exit of a command outside the plot included) and exit code 0 otherwise;
\* a run with exit code 0 has come to the last step of its stage, and a run
\* that has come to the plot has exit code 0 whatever became of the plot and
\* of the helper; a failed command is the last thing the run did; and no
\* step ran twice on the same target.
C16_ExitCodeTellsFailure ==
    /\ (pc = "done") <=> (exitCode \in {0, 1})
    /\ pc = "done" =>
         /\ (exitCode = 1) <=> StepFailed
         /\ (exitCode = 0) => RunComplete
         /\ HasEvent("phonopy-bandplot") => exitCode = 0
         /\ HasEvent("command failed") =>
                error = <<Exception("RuntimeError", "run_command", <<>>)>>
    /\ StepFailed => pc = "done"
    /\ \A i \in 1..Len(trace) : trace[i].op = "command failed" => i = Len(trace)
    /\ \A i, j \in 1..Len(trace) :
         (i < j /\ trace[i].op = trace[j].op /\ trace[i].op # "prompt_user")
            => trace[i].on # trace[j].on

\* `phonopy -f` exited non-zero and the run ended with exit code 1
C16_Witness ==
    /\ pc = "done"
    /\ exitCode = 1
    /\ LastEvent.op = "command failed"
    /\ HasEvent("phonopy -f")

\* the plot failed and the helper was unavailable, and the run ended with
\* exit code 0
C16_WitnessBestEffort ==
    /\ pc = "done"
    /\ exitCode = 0
    /\ BestEffortFailed

\* the record is a JSON object whose dims is a list of integers and whose
\* prefix is a string
RequiredFieldsWellFormed(doc) ==
    /\ doc.t = "object"
    /\ {"dims", "prefix"} \subseteq DOMAIN doc.v
    /\ doc.v["dims"].t = "list"
    /\ \A i \in 1..Len(doc.v["dims"].v) : doc.v["dims"].v[i].t = "int"
    /\ doc.v["prefix"].t = "str"

\* dims is a list, but not a list of integers
DimsNotIntegers(doc) ==
    /\ doc.t = "object"
    /\ "dims" \in DOMAIN doc.v
    /\ doc.v["dims"].t = "list"
    /\ \E i \in 1..Len(doc.v["dims"].v) : doc.v["dims"].v[i].t # "int"

CorruptConfiguration == Exception("RuntimeError", "load_config_snapshot", <<>>)

\* C17: when load_config_snapshot has run on an existing record that is not
\* an object, lacks dims or prefix, or whose dims is not a list of integers
\* or whose prefix is not a string, the run has ended with the
\* corrupt-configuration error and no configuration was returned.
C17_CorruptRecordRejected ==
    (HasEvent("load_config_snapshot") /\ record # <<>> /\ ~ RequiredFieldsWellFormed(record[1]))
        => /\ pc = "done"
           /\ exitCode = 1
           /\ error = <<CorruptConfiguration>>
           /\ config = <<>>

\* the same, for dims alone: a list with an element that is not an integer
C17_NonIntegerDimsRejected ==
    (HasEvent("load_config_snapshot") /\ record # <<>> /\ DimsNotIntegers(record[1]))
        => /\ pc = "done"
           /\ error = <<CorruptConfiguration>>
           /\ config = <<>>

\* what the loader does reject: a text that is not a JSON object, an object
\* without dims or prefix, a dims that is not iterable or holds a value int()
\* refuses
C17_MissingOrUnconvertibleRejected ==
    (/\ HasEvent("load_config_snapshot")
     /\ record # <<>>
     /\ \/ record[1].t # "object"
        \/ ~ {"dims", "prefix"} \subseteq DOMAIN record[1].v
        \/ record[1].v["dims"].t \notin {"list", "str"}
        \/ /\ record[1].v["dims"].t = "list"
           /\ \E i \in 1..Len(record[1].v["dims"].v) :
                \/ record[1].v["dims"].v[i].t = "null"
                \/ /\ record[1].v["dims"].v[i].t = "str"
                   /\ ~ isdigit(record[1].v["dims"].v[i].v[1]))
        => /\ pc = "done"
           /\ exitCode = 1
           /\ error = <<CorruptConfiguration>>
           /\ config = <<>>

\* C18: a configuration that has left collect_configuration, collected from
\* the operator or loaded from the record, has supercell dims of exactly 3
\* entries, each a strictly positive integer, and a non-empty prefix.
C18_DimsPositiveTriple ==
    (config # <<>> /\ pc # "collect_configuration")
        => /\ Len(config[1].dims) = 3
           /\ \A i \in 1..Len(config[1].dims) : config[1].dims[i] > 0
           /\ config[1].prefix # <<>>

\* what the prompts do guarantee: three integers and a non-empty prefix
C18_CollectedTripleOfIntegers ==
    (config # <<>> /\ pc # "collect_configuration")
        => /\ Len(config[1].dims) = 3
           /\ \A i \in 1..Len(config[1].dims) : config[1].dims[i] \in Int
           /\ config[1].prefix # <<>>

\* the same for a loaded configuration, under the loader's specification:
\* the dims of the record are taken at whatever length they have
C18_LoadedDimsAreTriples ==
    (config # <<>> /\ pc # "collect_configuration") => Len(config[1].dims) = 3

\* what became of the plot of this run
PlotOutcome ==
    trace[CHOOSE i \in 1..Len(trace) : trace[i].op = "phonopy-bandplot"].note[1]

\* C19: in a post or full run whose band computation has succeeded, the
\* only step left is the plot, and once the run has ended it has ended with
\* exit code 0 and no error, whether the plot command succeeded, exited
\* non-zero, timed out or could not be started.
C19_PlotNeverFailsRun ==
    (stage \in {"post", "full"} /\ Succeeded("phonopy band.conf"))
        => /\ pc \in {"run_bandplot_to_file", "done"}
           /\ pc = "done"
                => /\ HasEvent("phonopy-bandplot")
                   /\ PlotOutcome \in {"ok", "nonzero", "timeout", "oserror"}
                   /\ exitCode = 0
                   /\ error = <<>>

\* the plot command could not be started, and the full run ended with exit code 0
C19_Witness ==
    /\ stage = "full"
    /\ pc = "done"
    /\ HasEvent("phonopy-bandplot")
    /\ PlotOutcome = "oserror"
    /\ exitCode = 0

\* the plot command timed out, and the post run ended with exit code 0
C19_WitnessTimeout ==
    /\ stage = "post"
    /\ pc = "done"
    /\ HasEvent("phonopy-bandplot")
    /\ PlotOutcome = "timeout"
    /\ exitCode = 0

\* the symmetry pass of this run exited with status 0 and wrote PPOSCAR
\* ("ok") or wrote nothing ("silent")
SymmetryPass(outcome) ==
    \E i \in 1..Len(trace) :
        /\ trace[i].op = "phonopy --symmetry"
        /\ trace[i].note = <<outcome>>

ToolOutputMissing == Exception("FileNotFoundError", "ensure_poscar_unitcell", <<PPOSCAR>>)

\* C20: with apply_symmetry true, a symmetry pass that left no PPOSCAR means
\* the run has ended with the tool-output-missing error, `phonopy -d` was
\* not called and POSCAR-unitcell is as the run found it; a pass that wrote
\* PPOSCAR means that POSCAR-unitcell is the reduced structure written in
\* this run, whatever POSCAR-unitcell held before, and PPOSCAR is gone.
C20_UnitcellIsThisRunsReduction ==
    /\ SymmetryPass("silent")
         => /\ config[1].apply_symmetry
            /\ PPOSCAR \notin DOMAIN files
            /\ pc = "done"
            /\ exitCode = 1
            /\ error = <<ToolOutputMissing>>
            /\ ~ HasEvent("phonopy -d")
            /\ POSCAR_unitcell \in DOMAIN files
                 <=> POSCAR_unitcell \in DOMAIN start.files
            /\ POSCAR_unitcell \in DOMAIN files
                 => files[POSCAR_unitcell] = start.files[POSCAR_unitcell]
    /\ SymmetryPass("ok")
         => /\ config[1].apply_symmetry
            /\ PPOSCAR \notin DOMAIN files
            /\ POSCAR_unitcell \in DOMAIN files
            /\ files[POSCAR_unitcell] = DataFile("reduced", <<>>, runs)
            /\ error # <<ToolOutputMissing>>

\* a second run whose symmetry pass replaced a POSCAR-unitcell that the first
\* run had copied from POSCAR
C20_Witness ==
    /\ SymmetryPass("ok")
    /\ POSCAR_unitcell \in DOMAIN start.files
    /\ start.files[POSCAR_unitcell].what = "structure"
    /\ files[POSCAR_unitcell].what = "reduced"
    /\ HasEvent("phonopy -d")

\* a symmetry pass that exited with status 0 and wrote nothing, with an older
\* POSCAR-unitcell in the working directory
C20_WitnessSilent ==
    /\ SymmetryPass("silent")
    /\ pc = "done"
    /\ POSCAR_unitcell \in DOMAIN files

\* the optional key is missing from the record
Lacks(key) == key \notin DOMAIN record[1].v

\* C21: when load_config_snapshot has run on a record that has dims and
\* prefix, it has succeeded; each optional key the record lacks has its
\* default in the configuration (apply_symmetry true, band sequence G M K G
\* with the labels Gamma M K Gamma, 51 band points, atom name BO3, no
\* structure path), each key it has keeps the recorded value, dims and
\* prefix are the recorded ones and the stage is the caller's.
C21_AbsentKeysGetDefaults ==
    (HasEvent("load_config_snapshot") /\ record # <<>>
        /\ {"dims", "prefix"} \subseteq DOMAIN record[1].v)
        => /\ error = <<>>
           /\ config # <<>>
           /\ config[1].stage = stage
           /\ config[1].dims = <<1, 1, 3>>
           /\ config[1].prefix = <<"d", "i", "s", "p">>
           /\ config[1].apply_symmetry = (IF Lacks("apply_symmetry") THEN TRUE ELSE FALSE)
           /\ config[1].band_sequence
                = (IF Lacks("band_sequence") THEN <<"G", "M", "K", "G">> ELSE <<"K", "G">>)
           /\ config[1].band_labels
                = (IF Lacks("band_labels") THEN <<"$\\Gamma$", "M", "K", "$\\Gamma$">>
                   ELSE <<"K", "$\\Gamma$">>)
           /\ config[1].band_points = (IF Lacks("band_points") THEN 51 ELSE 101)
           /\ config[1].atom_name = (IF Lacks("atom_name") THEN "BO3" ELSE "Si")
           /\ config[1].poscar_path
                = (IF Lacks("poscar_path") THEN <<>> ELSE <<SourceFile>>)

\* a record with nothing but dims and prefix, loaded for the full stage
C21_Witness ==
    /\ HasEvent("load_config_snapshot")
    /\ DOMAIN record[1].v = {"dims", "prefix"}
    /\ stage = "full"
    /\ config # <<>>
    /\ config[1].stage = "full"
    /\ config[1].apply_symmetry
    /\ config[1].band_points = 51

\* C22: throughout a post-only run, and when it has ended in success or in
\* failure, workflow_state.json is what it was when the run started: not
\* written, not deleted, not changed.
C22_PostLeavesRecordAlone ==
    stage = "post" => record = start.record

\* a post-only run that loaded the record, wrote FORCE_SETS and band.conf and
\* ended
C22_Witness ==
    /\ stage = "post"
    /\ pc = "done"
    /\ record # <<>>
    /\ HasEvent("load_config_snapshot")
    /\ HasEvent("write band.conf")
    /\ Snapshot # start

\* a post-only run that failed at the convergence checks
C22_WitnessFailed ==
    /\ stage = "post"
    /\ pc = "done"
    /\ exitCode = 1
    /\ record # <<>>
    /\ unconverged # <<>>

\* the run started with no numbered structure file POSCAR-N in the working
\* directory: every earlier displacement run relocated what it generated
NoLeftoverStructures == \A n \in DOMAIN start.files : ~ IsDisplacementName(n)

\* the children of a directory other than its POSCAR
Others(children) == [c \in DOMAIN children \ {"POSCAR"} |-> children[c]]

\* the work directories named by the structures tr says `phonopy -d` wrote
NamedBy(tr, prefix) ==
    {Dash(prefix, k) : k \in UNION {Range(tr[i].note) :
                                      i \in {j \in 1..Len(tr) : tr[j].op = "phonopy -d"}}}

\* C23: no step removes or renames a work directory, and only displacement
\* generation creates one, so the directories that exist are the union of
\* those the displacement runs created.  A displacement run that started
\* with no leftover numbered structure file changes only the directories
\* {prefix}-N of the structures it generated: each of them holds this run's
\* structure N as POSCAR and otherwise what it held before, and every other
\* directory is as it was.
C23_WorkDirectoriesKept ==
    [][/\ DOMAIN dirs \subseteq DOMAIN dirs'
       /\ pc # "run_displacements" => DOMAIN dirs' = DOMAIN dirs
       /\ pc = "run_displacements" =>
            LET named == NamedBy(trace', config[1].prefix)
            IN  /\ \A d \in DOMAIN dirs' \ DOMAIN dirs :
                     \E k \in Suffixes : d = Dash(config[1].prefix, k)
                /\ NoLeftoverStructures =>
                     /\ error' = <<>> => named \subseteq DOMAIN dirs'
                     /\ \A d \in DOMAIN dirs' :
                          IF d \in named
                          THEN /\ "POSCAR" \in DOMAIN dirs'[d]
                               /\ dirs'[d]["POSCAR"] =
                                    DataFile("displacement", split(d)[2], runs)
                               /\ Others(dirs'[d]) =
                                    (IF d \in DOMAIN dirs THEN Others(dirs[d])
                                     ELSE NoChildren)
                          ELSE d \in DOMAIN dirs /\ dirs'[d] = dirs[d]]_vars

\* the second displacement run with the prefix of the first has generated
\* one structure: its directory, which held the first run's POSCAR and the
\* OUTCAR of a calculation, holds the new POSCAR and the same OUTCAR, and the
\* other directory of the first run is as it was
C23_Witness ==
    /\ runs = 2
    /\ stage = "pre"
    /\ pc = "done"
    /\ exitCode = 0
    /\ NoLeftoverStructures
    /\ \E d, e \in DOMAIN start.dirs :
         /\ d # e
         /\ NamedBy(trace, config[1].prefix) = {d}
         /\ "OUTCAR" \in DOMAIN start.dirs[d]
         /\ start.dirs[d]["POSCAR"].run = 1
         /\ dirs[d]["POSCAR"].run = 2
         /\ Others(dirs[d]) = Others(start.dirs[d])
         /\ dirs[e] = start.dirs[e]

\* the directories of the working directory named prefix + "-" + one or
\* more decimal digits, in lexicographic order of their names
NumberedDirectories ==
    Sorted({d \in DOMAIN dirs :
              \E n \in 1..Len(d) :
                 /\ d = Dash(config[1].prefix, SubSeq(d, n + 1, Len(d)))
                 /\ isdigit(SubSeq(d, n + 1, Len(d)))})

\* the folders of the convergence checks of this run, in the order checked
CheckedFolders ==
    LET checks == SelectSeq(trace, LAMBDA e : e.op = "check_convergence")
    IN  [i \in 1..Len(checks) |-> checks[i].on]

\* post-processing is past find_dispersion_folders
PastDiscovery ==
    /\ config # <<>>
    /\ \/ HasEvent("find_dispersion_folders")
       \/ pc = "done" /\ error # <<>> /\ error[1].at = "run_postprocessing"

\* what C24 promises of a run past discovery
DiscoveryAsPromised ==
    IF NumberedDirectories = <<>>
       \/ POSCAR_unitcell \notin DOMAIN files \cup DOMAIN dirs
    THEN /\ pc = "done"
         /\ exitCode = 1
         /\ ~ HasEvent("check_convergence")
    ELSE /\ folders = NumberedDirectories
         /\ HasEvent("check_convergence") => CheckedFolders = NumberedDirectories
         /\ \A i \in 1..Len(trace) :
              trace[i].op = "phonopy -f" => trace[i].note = NumberedDirectories

\* C24: for every prefix, once post-processing is past the discovery of the
\* work directories, the folders it checks and hands to `phonopy -f` are
\* exactly the directories named prefix + "-" + decimal digits, in
\* lexicographic order, the same order in both; when there is none, or
\* POSCAR-unitcell is missing, the run has failed with no convergence check.
C24_ExactlyNumberedDirectories ==
    PastDiscovery => DiscoveryAsPromised

\* the same, for a prefix with no "[": a prefix Path.glob takes literally
C24_NumberedDirectoriesOfPlainPrefix ==
    (PastDiscovery /\ "[" \notin Range(config[1].prefix)) => DiscoveryAsPromised

\* {prefix}-10 and {prefix}-2 were checked and aggregated in that order,
\* with {prefix}-x, {prefix}-1-2 and the plain file {prefix}-3 left out
C24_PlainPrefixReached ==
    /\ Succeeded("phonopy -f")
    /\ Len(folders) = 2
    /\ folders = NumberedDirectories
    /\ Dash(config[1].prefix, <<"x">>) \in DOMAIN dirs
    /\ Dash(config[1].prefix, <<"1", "-", "2">>) \in DOMAIN dirs
    /\ FolderFile(config[1].prefix) \in DOMAIN files

\* with the prefix d[1], the directory d[1]-2 of a complete calculation is
\* there and the run has failed: no folder found
C24_BracketPrefixFindsNothing ==
    /\ "[" \in Range(config[1].prefix)
    /\ NumberedDirectories # <<>>
    /\ POSCAR_unitcell \in DOMAIN files
    /\ pc = "done"
    /\ error = <<Exception("RuntimeError", "find_dispersion_folders", <<>>)>>

=============================================================================
